---- MODULE Spec2Model ----
(***************************************************************************)
(* A model of gitlab-toolbox's API layer: GitLabClient.paginate, the       *)
(* merge-request fetch with its pipeline-status cross-reference filter,    *)
(* and GroupsAPI.build_group_tree.                                         *)
(*                                                                         *)
(* The upstream GitLab instance is a stable collection per endpoint; the   *)
(* program is single-threaded, so every call is a sequential process whose *)
(* position is kept in a frame record (pg, mr, tree, grp, mem, sched, cmd).  *)
(* now is the wall clock in days; prev keeps the outcome of the first of    *)
(* two successive calls; wire holds the requests sent and not yet answered; *)
(* conf is the process-wide configuration of GitLabClient.                 *)
(***************************************************************************)
EXTENDS Integers, Sequences, FiniteSets, TLC

VARIABLES up, pg, reqs, mr, tree, grp, mem, sched, cmd, now, prev, wire, conf

vars == <<up, pg, reqs, mr, tree, grp, mem, sched, cmd, now, prev, wire, conf>>

(***************************************************************************)
(* Bounds of the model.                                                    *)
(***************************************************************************)
\* Longest upstream collection served to a bare paginate call.
MaxItems == 5
\* Largest per_page argument of a bare paginate call.
MaxPerPage == 3
\* Largest limit argument of a bare paginate call.
MaxLimit == 3
\* Last page number at which the upstream may answer with a JSON object or
\* at which the request may fail.
MaxFaultPage == 2
\* Longest list of merge-request pipelines the upstream holds (before padding).
MaxPipelines == 2
\* Most groups in the flat input of build_group_tree.
MaxGroups == 3
\* Most groups the upstream holds for get_group's lookups.
MaxCandidates == 3
\* Most members the upstream holds for a group.
MaxMembers == 2
\* Most merge requests listed by mergerequests list --trigger-pipeline.
MaxListed == 2

(***************************************************************************)
(* Program constants.                                                      *)
(***************************************************************************)
\* paginate's default per_page.
DefaultPerPage == 100
\* The limit the cross-reference filter passes to get_pipelines.
PipelineFetchLimit == 1000
\* The days the cross-reference filter looks back: timedelta(days=30).
Window == 30

(***************************************************************************)
(* Python values.                                                          *)
(***************************************************************************)
\* Optional[T]: None is the empty tuple, a value v is <<v>>.
None == <<>>
Some(v) == <<v>>

\* Truthiness of an Optional[int]: None and 0 are falsy.
TruthyInt(opt) == opt # None /\ opt[1] # 0

\* Truthiness of an Optional[str]: None and "" are falsy.
TruthyStr(opt) == opt # None /\ opt[1] # ""

Min(a, b) == IF a <= b THEN a ELSE b

Max(a, b) == IF a >= b THEN a ELSE b

\* s[lo..hi] (1-based, inclusive), empty when hi < lo.
Slice(s, lo, hi) == [i \in 1..(hi - lo + 1) |-> s[lo + i - 1]]

\* Python's s[:n]: the first n elements, or all but the last -n when n < 0.
PyPrefix(s, n) ==
    IF n >= 0 THEN Slice(s, 1, Min(n, Len(s)))
    ELSE Slice(s, 1, Max(Len(s) + n, 0))

(***************************************************************************)
(* Transport.  A feed is what the upstream holds for one endpoint:         *)
(*   data   - the collection, in upstream order;                           *)
(*   objAt  - the page whose response is a JSON object, not a list (0: no);*)
(*   failAt - the page whose request raises (0: none).                     *)
(***************************************************************************)
\* The page the upstream serves for ?page=page&per_page=per_page.
PageOf(data, page, per_page) ==
    Slice(data, (page - 1) * per_page + 1, Min(page * per_page, Len(data)))

\* _run_api_request: the parsed JSON result, or the exception re-raised.
RunApiRequest(feed, page, per_page) ==
    IF feed.failAt = page THEN [kind |-> "raise", body |-> <<>>]
    ELSE IF feed.objAt = page THEN [kind |-> "object", body |-> <<>>]
    ELSE [kind |-> "list", body |-> PageOf(feed.data, page, per_page)]

(***************************************************************************)
(* GitLabClient.paginate.  A frame holds the call's locals:                *)
(*   endpoint, per_page, limit, items, page, and pc, the call's position   *)
(*   ("idle" before the call, "loop" at the head of `while True`,          *)
(*   "returned", "raised" when the request's exception left the call, and  *)
(*   "none" when the optional variant returned None).                      *)
(***************************************************************************)
\* The frame of a call not yet made.
PaginateArgs(endpoint, per_page, limit, optional) ==
    [endpoint |-> endpoint, per_page_arg |-> per_page, per_page |-> per_page,
     limit |-> limit, optional |-> optional, items |-> <<>>, page |-> 0,
     pc |-> "idle"]

\* Faulty variant of the code before the loop: per_page is not shrunk to
\* the limit.
PaginateEnterKeepsPerPage(f) ==
    [f EXCEPT !.per_page = f.per_page_arg,
              !.items = <<>>,
              !.page = 1,
              !.pc = "loop"]

\* The code before the loop: per_page = min(limit, per_page) when limit is
\* truthy, items = [], page = 1.
PaginateEnter(f) ==
    [f EXCEPT !.per_page = IF TruthyInt(f.limit) THEN Min(f.limit[1], f.per_page_arg)
                           ELSE f.per_page_arg,
              !.items = <<>>,
              !.page = 1,
              !.pc = "loop"]

\* Faulty variant of the iteration: the last-page test is `<=`, so the loop
\* stops after any page.
PaginateStepStopsOnFullPage(f, feed) ==
    LET result == RunApiRequest(feed, f.page, f.per_page) IN
    IF result.kind = "raise" THEN [f EXCEPT !.pc = "raised"]
    ELSE IF result.kind # "list" \/ result.body = <<>> THEN [f EXCEPT !.pc = "returned"]
    ELSE LET items == f.items \o result.body IN
         IF TruthyInt(f.limit) /\ Len(items) >= f.limit[1]
         THEN [f EXCEPT !.items = PyPrefix(items, f.limit[1]), !.pc = "returned"]
         ELSE IF Len(result.body) <= f.per_page
         THEN [f EXCEPT !.items = items, !.page = f.page + 1, !.pc = "returned"]
         ELSE [f EXCEPT !.items = items, !.page = f.page + 1]

\* Faulty variant of the iteration: the list is not cut to the limit.
PaginateStepNoTruncate(f, feed) ==
    LET result == RunApiRequest(feed, f.page, f.per_page) IN
    IF result.kind = "raise" THEN [f EXCEPT !.pc = "raised"]
    ELSE IF result.kind # "list" \/ result.body = <<>> THEN [f EXCEPT !.pc = "returned"]
    ELSE LET items == f.items \o result.body IN
         IF TruthyInt(f.limit) /\ Len(items) >= f.limit[1]
         THEN [f EXCEPT !.items = items, !.pc = "returned"]
         ELSE IF Len(result.body) < f.per_page
         THEN [f EXCEPT !.items = items, !.page = f.page + 1, !.pc = "returned"]
         ELSE [f EXCEPT !.items = items, !.page = f.page + 1]

\* Faulty variant of the iteration: `page += 1` is missing.
PaginateStepNoPageAdvance(f, feed) ==
    LET result == RunApiRequest(feed, f.page, f.per_page) IN
    IF result.kind = "raise" THEN [f EXCEPT !.pc = "raised"]
    ELSE IF result.kind # "list" \/ result.body = <<>> THEN [f EXCEPT !.pc = "returned"]
    ELSE LET items == f.items \o result.body IN
         IF TruthyInt(f.limit) /\ Len(items) >= f.limit[1]
         THEN [f EXCEPT !.items = PyPrefix(items, f.limit[1]), !.pc = "returned"]
         ELSE IF Len(result.body) < f.per_page
         THEN [f EXCEPT !.items = items, !.pc = "returned"]
         ELSE [f EXCEPT !.items = items]

\* Faulty variant of the iteration: a response that is not a list raises.
PaginateStepObjectRaises(f, feed) ==
    LET result == RunApiRequest(feed, f.page, f.per_page) IN
    IF result.kind # "list" THEN [f EXCEPT !.pc = "raised"]
    ELSE IF result.body = <<>> THEN [f EXCEPT !.pc = "returned"]
    ELSE LET items == f.items \o result.body IN
         IF TruthyInt(f.limit) /\ Len(items) >= f.limit[1]
         THEN [f EXCEPT !.items = PyPrefix(items, f.limit[1]), !.pc = "returned"]
         ELSE IF Len(result.body) < f.per_page
         THEN [f EXCEPT !.items = items, !.page = f.page + 1, !.pc = "returned"]
         ELSE [f EXCEPT !.items = items, !.page = f.page + 1]

\* One iteration of `while True`.
PaginateStep(f, feed) ==
    LET result == RunApiRequest(feed, f.page, f.per_page) IN
    IF result.kind = "raise" THEN [f EXCEPT !.pc = "raised"]
    ELSE IF result.kind # "list" \/ result.body = <<>> THEN [f EXCEPT !.pc = "returned"]
    ELSE LET items == f.items \o result.body IN
         IF TruthyInt(f.limit) /\ Len(items) >= f.limit[1]
         THEN [f EXCEPT !.items = PyPrefix(items, f.limit[1]), !.pc = "returned"]
         ELSE IF Len(result.body) < f.per_page
         THEN [f EXCEPT !.items = items, !.page = f.page + 1, !.pc = "returned"]
         ELSE [f EXCEPT !.items = items, !.page = f.page + 1]

\* One iteration of the optional variant: None when the first response is
\* not a list, otherwise as paginate.
PaginateOptionalStep(f, feed) ==
    LET result == RunApiRequest(feed, f.page, f.per_page) IN
    IF f.page = 1 /\ result.kind = "object" THEN [f EXCEPT !.pc = "none"]
    ELSE PaginateStep(f, feed)

\* The iteration of the variant the frame was called as.
PaginateIter(f, feed) ==
    IF f.optional THEN PaginateOptionalStep(f, feed) ELSE PaginateStep(f, feed)

\* The request an iteration issues.
RequestOf(f) == [endpoint |-> f.endpoint, page |-> f.page, per_page |-> f.per_page]

(***************************************************************************)
(* Frames of the calls a specification does not make.                      *)
(***************************************************************************)
NoPaginate == [PaginateArgs("", 0, None, FALSE) EXCEPT !.pc = "off"]

NoMr == [pc |-> "off"]

NoTree == [pc |-> "off"]

\* The frame of get_group, get_group_members, the schedule listing or a
\* command when no such call is in progress.
NoCall == [pc |-> "off"]

(***************************************************************************)
(* A bare call GitLabClient.paginate(endpoint, per_page=, limit=).         *)
(***************************************************************************)
Feeds(datas, faultPages) ==
    [data : datas, objAt : faultPages, failAt : faultPages]

Limits == {None} \cup {Some(l) : l \in 1..MaxLimit}

InitPaginate ==
    /\ up \in [items : Feeds({[i \in 1..n |-> i] : n \in 0..MaxItems}, 0..MaxFaultPage)]
    /\ pg \in {PaginateArgs("items", pp, l, o) :
                  pp \in 1..MaxPerPage, l \in Limits, o \in BOOLEAN}
    /\ reqs = <<>>
    /\ now = Window
    /\ prev = NoCall
    /\ wire = <<>>
    /\ conf = NoCall
    /\ mr = NoMr
    /\ tree = NoTree
    /\ grp = NoCall
    /\ mem = NoCall
    /\ sched = NoCall
    /\ cmd = NoCall

PaginateCall ==
    /\ pg.pc = "idle"
    /\ mr.pc = "off"
    /\ pg' = PaginateEnter(pg)
    /\ UNCHANGED <<up, reqs, mr, tree, grp, mem, sched, cmd, now, prev, wire, conf>>

PaginateIterate ==
    /\ pg.pc = "loop"
    /\ mr.pc = "off"
    /\ reqs' = Append(reqs, RequestOf(pg))
    /\ pg' = PaginateIter(pg, up[pg.endpoint])
    /\ UNCHANGED <<up, mr, tree, grp, mem, sched, cmd, now, prev, wire, conf>>

NextPaginate == PaginateCall \/ PaginateIterate

SpecPaginate == InitPaginate /\ [][NextPaginate]_vars

FairSpecPaginate == SpecPaginate /\ WF_vars(NextPaginate)

(***************************************************************************)
(* Merge requests and pipelines as the upstream delivers them.             *)
(* A ref is the list of its "/"-separated segments, as ref.split("/")      *)
(* gives them; a pipeline dictionary without a "ref" key parses to a       *)
(* Pipeline whose ref is None.                                             *)
(***************************************************************************)
\* The merge-request iids of the modelled project.
Iids == {1, 2}

\* The decimal numeral of each modelled integer.
Numeral == [k \in Iids |-> IF k = 1 THEN "1" ELSE "2"]

\* int(s): Some(k) for a decimal numeral, None where Python raises ValueError.
ParseInt(s) ==
    IF \E k \in DOMAIN Numeral : Numeral[k] = s
    THEN Some(CHOOSE k \in DOMAIN Numeral : Numeral[k] = s)
    ELSE None

\* The ref of the merge-request pipeline of iid k: refs/merge-requests/k/head.
MrRef(k) == <<"refs", "merge-requests", Numeral[k], "head">>

Statuses == {"success", "running"}

\* The pipeline dictionaries of the upstream.
RawPipelines ==
    [ref : {Some(MrRef(k)) : k \in Iids} \cup {Some(<<"main">>)}, status : Statuses,
     created_at : {1}]
    \cup {[ref |-> None, status |-> "success", created_at |-> 1]}

\* The merge-request dictionaries of the upstream: distinct iids, any order.
RawMrLists ==
    {<<>>} \cup {<<[iid |-> k]>> : k \in Iids}
    \cup UNION {{<<[iid |-> j], [iid |-> k]>> : k \in Iids \ {j}} : j \in Iids}

\* _parse_merge_request (the fields the filter reads).
ParseMergeRequest(data) == [iid |-> data.iid]

\* _parse_pipeline (the fields the filter reads).
ParsePipeline(data) == [ref |-> data.ref, status |-> data.status]

\* [cls._parse_merge_request(mr) for mr in mrs_data]
ParseMergeRequests(mrs_data) ==
    [i \in 1..Len(mrs_data) |-> ParseMergeRequest(mrs_data[i])]

\* [cls._parse_pipeline(p) for p in pipelines_data]
ParsePipelines(pipelines_data) ==
    [i \in 1..Len(pipelines_data) |-> ParsePipeline(pipelines_data[i])]

(***************************************************************************)
(* MergeRequestsAPI._filter_mrs_by_pipeline_status_ultra_efficient         *)
(***************************************************************************)
\* ref.startswith("refs/merge-requests/")
StartsWithMrPrefix(segs) ==
    Len(segs) >= 3 /\ segs[1] = "refs" /\ segs[2] = "merge-requests"

\* ref.endswith("/head")
EndsWithHead(segs) == Len(segs) >= 2 /\ segs[Len(segs)] = "head"

\* Faulty variant of the iteration: a later pipeline overwrites the entry.
IndexPipelineLastWins(acc, pipeline) ==
    IF acc.raised THEN acc
    ELSE IF pipeline.ref = None THEN [acc EXCEPT !.raised = TRUE]
    ELSE LET segs == pipeline.ref[1] IN
         IF StartsWithMrPrefix(segs) /\ EndsWithHead(segs)
         THEN LET mr_iid == ParseInt(segs[3]) IN
              IF mr_iid = None THEN acc
              ELSE [acc EXCEPT !.index = (mr_iid[1] :> pipeline.status) @@ acc.index]
         ELSE acc

\* One iteration of `for pipeline in pipelines`; acc holds the dictionary
\* mr_latest_pipeline_status and whether an exception has left the loop.
IndexPipeline(acc, pipeline) ==
    IF acc.raised THEN acc
    ELSE IF pipeline.ref = None THEN [acc EXCEPT !.raised = TRUE]
    ELSE LET segs == pipeline.ref[1] IN
         IF StartsWithMrPrefix(segs) /\ EndsWithHead(segs)
         THEN LET mr_iid == ParseInt(segs[3]) IN
              IF mr_iid = None THEN acc
              ELSE IF mr_iid[1] \notin DOMAIN acc.index
              THEN [acc EXCEPT !.index = (mr_iid[1] :> pipeline.status) @@ acc.index]
              ELSE acc
         ELSE acc

\* The iterations lo..hi of the loop, started with acc.  The range is run
\* as its first half and then its second half, which is the loop's left to
\* right order; an exception in the first half skips the second.
RECURSIVE IndexRange(_, _, _, _)
IndexRange(pipelines, lo, hi, acc) ==
    IF lo > hi THEN acc
    ELSE IF lo = hi THEN IndexPipeline(acc, pipelines[lo])
    ELSE LET mid == (lo + hi) \div 2
             left == IndexRange(pipelines, lo, mid, acc) IN
         IF left.raised THEN left ELSE IndexRange(pipelines, mid + 1, hi, left)

\* The whole loop `for pipeline in pipelines`, from an empty dictionary.
BuildIndex(pipelines) ==
    IndexRange(pipelines, 1, Len(pipelines), [index |-> <<>>, raised |-> FALSE])

\* Faulty variant of the second loop: a merge request without an index
\* entry is passed through.
FilterByIndexPassUnknown(mrs, index, pipeline_status) ==
    SelectSeq(mrs, LAMBDA m : m.iid \notin DOMAIN index \/ index[m.iid] = pipeline_status)

\* "Success".lower() and the like, for the statuses modelled.
Lower(status) == IF status = "Success" THEN "success" ELSE status

\* Faulty variant of the second loop: statuses are compared ignoring case.
FilterByIndexIgnoreCase(mrs, index, pipeline_status) ==
    SelectSeq(mrs, LAMBDA m : m.iid \in DOMAIN index
                              /\ Lower(index[m.iid]) = Lower(pipeline_status))

\* The second loop: the merge requests whose indexed status is the desired one.
FilterByIndex(mrs, index, pipeline_status) ==
    SelectSeq(mrs, LAMBDA m : m.iid \in DOMAIN index /\ index[m.iid] = pipeline_status)

\* Faulty variant of the try block: on an exception the input is returned
\* unfiltered.
FilterBodyErrorReturnsInput(mrs, f, pipeline_status) ==
    IF f.pc = "raised"
    THEN [index |-> <<>>, caught |-> TRUE, filtered |-> mrs]
    ELSE LET pipelines == ParsePipelines(f.items)
             acc == BuildIndex(pipelines) IN
         IF acc.raised
         THEN [index |-> acc.index, caught |-> TRUE, filtered |-> mrs]
         ELSE [index |-> acc.index, caught |-> FALSE,
               filtered |-> FilterByIndex(mrs, acc.index, pipeline_status)]

\* The try block once get_pipelines has ended with frame f: what the filter
\* returns, with the index it built and whether an exception was caught.
FilterBody(mrs, f, pipeline_status) ==
    IF f.pc = "raised"
    THEN [index |-> <<>>, caught |-> TRUE, filtered |-> <<>>]
    ELSE LET pipelines == ParsePipelines(f.items)
             acc == BuildIndex(pipelines) IN
         IF acc.raised
         THEN [index |-> acc.index, caught |-> TRUE, filtered |-> <<>>]
         ELSE [index |-> acc.index, caught |-> FALSE,
               filtered |-> FilterByIndex(mrs, acc.index, pipeline_status)]

(***************************************************************************)
(* MergeRequestsAPI.get_merge_requests.  The frame mr holds the arguments  *)
(* project_path, pipeline_status and limit, the locals, and pc:            *)
(*   "idle", "fetch_mrs" (inside paginate_optional), "fetch_pipelines"     *)
(*   (inside the filter's get_pipelines), "returned", "raised".            *)
(***************************************************************************)
MrArgs(project_path, pipeline_status, limit) ==
    [project_path |-> project_path, pipeline_status |-> pipeline_status,
     limit |-> limit, pc |-> "idle", mrs |-> <<>>, filter_called |-> FALSE,
     thirty_days_ago |-> 0, index |-> <<>>, caught |-> FALSE, filtered |-> <<>>,
     result |-> <<>>]

\* Faulty variant of thirty_days_ago: twice the days elapsed beyond the window.
ThirtyDaysAgoDoubled(today) == 2 * (today - Window)

\* thirty_days_ago = datetime.now() - timedelta(days=30), in days.
ThirtyDaysAgo(today) == today - Window

\* What the upstream serves for params["created_after"]: the pipelines
\* created after that day.
CreatedAfter(feed, created_after) ==
    [feed EXCEPT !.data = SelectSeq(feed.data, LAMBDA p : p.created_at > created_after)]

\* Faulty variant of fetch_limit: the limit is always passed to the fetch.
FetchLimitAlways(pipeline_status, limit) == limit

\* fetch_limit = None if pipeline_status else limit
FetchLimit(pipeline_status, limit) ==
    IF TruthyStr(pipeline_status) THEN None ELSE limit

MrEndpoint(project_path) ==
    IF TruthyStr(project_path) THEN "projects/merge_requests" ELSE "merge_requests"

\* mrs = mrs[:limit] when limit is truthy.
ApplyLimit(mrs, limit) == IF TruthyInt(limit) THEN PyPrefix(mrs, limit[1]) ELSE mrs

\* Padding that fills one whole default page of the pipelines collection
\* with branch pipelines.
Pad ==
    [i \in 1..DefaultPerPage |->
        [ref |-> Some(<<"main">>), status |-> "success", created_at |-> 1]]

PipelineLists ==
    UNION {[1..n -> RawPipelines] : n \in 0..MaxPipelines}

CleanFeed(data) == [data |-> data, objAt |-> 0, failAt |-> 0]

\* The pipelines feeds: lists served whole; lists behind a full page of
\* padding, served in two pages; a feed failing on page 2, after the padding;
\* and feeds that answer page 1 with an object or fail on it.
PipelineFeeds ==
    {CleanFeed(d) : d \in PipelineLists}
    \cup {CleanFeed(Pad \o d) : d \in PipelineLists}
    \cup {[data |-> Pad, objAt |-> 0, failAt |-> 2],
          [data |-> <<>>, objAt |-> 1, failAt |-> 0],
          [data |-> <<>>, objAt |-> 0, failAt |-> 1]}

\* The merge-requests feeds: lists served whole, and feeds that answer
\* page 1 with an object or fail on it.
MrFeeds ==
    {CleanFeed(d) : d \in RawMrLists}
    \cup {[data |-> <<>>, objAt |-> 1, failAt |-> 0],
          [data |-> <<>>, objAt |-> 0, failAt |-> 1]}

MrUpstream(mrFeed, pipelineFeed) ==
    ("merge_requests" :> mrFeed) @@ ("projects/merge_requests" :> mrFeed)
    @@ ("projects/pipelines" :> pipelineFeed)

ProjectPaths == {None, Some("grp/proj")}

DesiredStatuses == {None, Some("success"), Some("Success")}

MrLimits == {None, Some(1)}

\* The pipelines feed is drawn freely only where the call reads it.
InitMr ==
    /\ \E project_path \in ProjectPaths, pipeline_status \in DesiredStatuses,
          limit \in MrLimits, mrFeed \in MrFeeds :
          /\ mr = MrArgs(project_path, pipeline_status, limit)
          /\ \E pipelineFeed \in
                 IF TruthyStr(project_path) /\ TruthyStr(pipeline_status)
                    /\ mrFeed.data # <<>>
                 THEN PipelineFeeds ELSE {CleanFeed(<<>>)} :
                 up = MrUpstream(mrFeed, pipelineFeed)
    /\ pg = NoPaginate
    /\ reqs = <<>>
    /\ now = Window
    /\ prev = NoCall
    /\ wire = <<>>
    /\ conf = NoCall
    /\ tree = NoTree
    /\ grp = NoCall
    /\ mem = NoCall
    /\ sched = NoCall
    /\ cmd = NoCall

\* Lines 43-60: build the parameters and enter paginate_optional.
MrCall ==
    /\ mr.pc = "idle"
    /\ mr' = [mr EXCEPT !.pc = "fetch_mrs"]
    /\ pg' = PaginateEnter(PaginateArgs(MrEndpoint(mr.project_path), DefaultPerPage,
                                        FetchLimit(mr.pipeline_status, mr.limit), TRUE))
    /\ UNCHANGED <<up, reqs, tree, grp, mem, sched, cmd, now, prev, wire, conf>>

\* One iteration of paginate_optional's loop.
MrFetchPage ==
    /\ mr.pc = "fetch_mrs"
    /\ pg.pc = "loop"
    /\ reqs' = Append(reqs, RequestOf(pg))
    /\ pg' = PaginateIter(pg, up[pg.endpoint])
    /\ UNCHANGED <<up, mr, tree, grp, mem, sched, cmd, now, prev, wire, conf>>

\* The merge-request fetch raised: the exception leaves get_merge_requests.
MrFetchRaised ==
    /\ mr.pc = "fetch_mrs"
    /\ pg.pc = "raised"
    /\ mr' = [mr EXCEPT !.pc = "raised"]
    /\ UNCHANGED <<up, pg, reqs, tree, grp, mem, sched, cmd, now, prev, wire, conf>>

\* Lines 61-63, 68-72: mrs_data is None.
MrNotFound ==
    /\ mr.pc = "fetch_mrs"
    /\ pg.pc = "none"
    /\ mr' = [mr EXCEPT !.pc = "returned", !.result = <<>>]
    /\ UNCHANGED <<up, pg, reqs, tree, grp, mem, sched, cmd, now, prev, wire, conf>>

\* Lines 74-85 with no pipeline_status: the parsed list is returned.
MrReturnUnfiltered ==
    /\ mr.pc = "fetch_mrs"
    /\ pg.pc = "returned"
    /\ ~TruthyStr(mr.pipeline_status)
    /\ LET mrs == ParseMergeRequests(pg.items) IN
       mr' = [mr EXCEPT !.pc = "returned", !.mrs = mrs, !.result = mrs]
    /\ UNCHANGED <<up, pg, reqs, tree, grp, mem, sched, cmd, now, prev, wire, conf>>

\* Faulty variant of the filter's early return: without a project path the
\* merge requests are returned unfiltered.
MrFilterEarlyPassesInput ==
    /\ mr.pc = "fetch_mrs"
    /\ pg.pc = "returned"
    /\ TruthyStr(mr.pipeline_status)
    /\ LET mrs == ParseMergeRequests(pg.items) IN
       /\ ~TruthyStr(mr.project_path) \/ mrs = <<>>
       /\ mr' = [mr EXCEPT !.pc = "returned", !.mrs = mrs, !.filter_called = TRUE,
                           !.filtered = mrs, !.result = ApplyLimit(mrs, mr.limit)]
    /\ UNCHANGED <<up, pg, reqs, tree, grp, mem, sched, cmd, now, prev, wire, conf>>

\* Lines 74-83 and 127-128: the filter is called and returns [] at once,
\* having no project path or no merge requests.
MrFilterEarly ==
    /\ mr.pc = "fetch_mrs"
    /\ pg.pc = "returned"
    /\ TruthyStr(mr.pipeline_status)
    /\ LET mrs == ParseMergeRequests(pg.items) IN
       /\ ~TruthyStr(mr.project_path) \/ mrs = <<>>
       /\ mr' = [mr EXCEPT !.pc = "returned", !.mrs = mrs, !.filter_called = TRUE,
                           !.filtered = <<>>, !.result = ApplyLimit(<<>>, mr.limit)]
    /\ UNCHANGED <<up, pg, reqs, tree, grp, mem, sched, cmd, now, prev, wire, conf>>

\* Lines 74-80 and 134-146: the filter is called and enters get_pipelines.
MrFilterEnter ==
    /\ mr.pc = "fetch_mrs"
    /\ pg.pc = "returned"
    /\ TruthyStr(mr.pipeline_status)
    /\ LET mrs == ParseMergeRequests(pg.items) IN
       /\ TruthyStr(mr.project_path) /\ mrs # <<>>
       /\ mr' = [mr EXCEPT !.pc = "fetch_pipelines", !.mrs = mrs, !.filter_called = TRUE,
                           !.thirty_days_ago = ThirtyDaysAgo(now)]
    /\ pg' = PaginateEnter(PaginateArgs("projects/pipelines", DefaultPerPage,
                                        Some(PipelineFetchLimit), FALSE))
    /\ UNCHANGED <<up, reqs, tree, grp, mem, sched, cmd, now, prev, wire, conf>>

\* One iteration of the loop of get_pipelines' paginate.
FilterFetchPage ==
    /\ mr.pc = "fetch_pipelines"
    /\ pg.pc = "loop"
    /\ reqs' = Append(reqs, RequestOf(pg))
    /\ pg' = PaginateIter(pg, CreatedAfter(up[pg.endpoint], mr.thirty_days_ago))
    /\ UNCHANGED <<up, mr, tree, grp, mem, sched, cmd, now, prev, wire, conf>>

\* Lines 147-198 and 81-85: get_pipelines has ended; the filter builds the
\* index, filters (or catches the exception) and get_merge_requests applies
\* the limit.
FilterFinish ==
    /\ mr.pc = "fetch_pipelines"
    /\ pg.pc # "loop"
    /\ LET out == FilterBody(mr.mrs, pg, mr.pipeline_status[1]) IN
       mr' = [mr EXCEPT !.pc = "returned", !.index = out.index, !.caught = out.caught,
                        !.filtered = out.filtered,
                        !.result = ApplyLimit(out.filtered, mr.limit)]
    /\ UNCHANGED <<up, pg, reqs, tree, grp, mem, sched, cmd, now, prev, wire, conf>>

NextMr ==
    \/ MrCall
    \/ MrFetchPage
    \/ MrFetchRaised
    \/ MrNotFound
    \/ MrReturnUnfiltered
    \/ MrFilterEarly
    \/ MrFilterEnter
    \/ FilterFetchPage
    \/ FilterFinish

SpecMr == InitMr /\ [][NextMr]_vars

(***************************************************************************)
(* GroupsAPI.get_group_members                                             *)
(***************************************************************************)
\* A paginate call run to its end.
RECURSIVE PaginateRun(_, _)
PaginateRun(f, feed) ==
    IF f.pc # "loop" THEN f ELSE PaginateRun(PaginateStep(f, feed), feed)

\* The member dictionaries of the upstream, without their ids: the user
\* account's state and the membership's state, each possibly absent.
RawMembers ==
    [state : {None, Some("active"), Some("blocked")},
     membership_state : {None, Some("active"), Some("awaiting")}]

\* The upstream's members: the dictionaries numbered from 1.
MembersOf(raw) ==
    [i \in 1..Len(raw) |->
        [id |-> i, state |-> raw[i].state, membership_state |-> raw[i].membership_state]]

\* member.get(key, "active"), the key's value being None when it is absent.
GetState(value) == IF value = None THEN "active" ELSE value[1]

\* Lines 143-161: the GroupMember of a member dictionary.
ParseMember(member) ==
    [id |-> member.id, state |-> GetState(member.state),
     membership_state |-> GetState(member.membership_state)]

\* Faulty variant of the loop: active_only tests the membership's state.
MembersFromByMembership(members_data, active_only) ==
    LET kept == SelectSeq(members_data,
                          LAMBDA m : ~(active_only
                                       /\ GetState(m.membership_state) # "active")) IN
    [i \in 1..Len(kept) |-> ParseMember(kept[i])]

\* Lines 141-163: the loop over members_data.
MembersFrom(members_data, active_only) ==
    LET kept == SelectSeq(members_data,
                          LAMBDA m : ~(active_only /\ GetState(m.state) # "active")) IN
    [i \in 1..Len(kept) |-> ParseMember(kept[i])]

\* get_group_members: the GroupMember records, or the exception of the
\* fetch.
GetGroupMembers(feed, active_only) ==
    LET f == PaginateRun(PaginateEnter(PaginateArgs("groups/members", DefaultPerPage,
                                                    None, FALSE)), feed) IN
    IF f.pc = "raised" THEN [raised |-> TRUE, members |-> <<>>]
    ELSE [raised |-> FALSE, members |-> MembersFrom(f.items, active_only)]

MemberArgs(active_only) ==
    [active_only |-> active_only, members |-> <<>>, pc |-> "idle"]

\* Every list of up to MaxMembers member dictionaries, served whole or
\* failing on the first page.
InitMembers ==
    /\ \E n \in 0..MaxMembers : \E raw \in [1..n -> RawMembers], failAt \in 0..1 :
          up = ("groups/members" :> [data |-> MembersOf(raw), objAt |-> 0,
                                     failAt |-> failAt])
    /\ mem \in {MemberArgs(a) : a \in BOOLEAN}
    /\ pg = NoPaginate
    /\ reqs = <<>>
    /\ now = Window
    /\ prev = NoCall
    /\ wire = <<>>
    /\ conf = NoCall
    /\ mr = NoMr
    /\ tree = NoTree
    /\ grp = NoCall
    /\ sched = NoCall
    /\ cmd = NoCall

\* Line 139: paginate is entered, without a limit.
MembersCall ==
    /\ mem.pc = "idle"
    /\ mem' = [mem EXCEPT !.pc = "fetch"]
    /\ pg' = PaginateEnter(PaginateArgs("groups/members", DefaultPerPage, None, FALSE))
    /\ UNCHANGED <<up, reqs, mr, tree, grp, sched, cmd, now, prev, wire, conf>>

\* One iteration of the loop of paginate.
MembersFetchPage ==
    /\ mem.pc = "fetch"
    /\ pg.pc = "loop"
    /\ reqs' = Append(reqs, RequestOf(pg))
    /\ pg' = PaginateIter(pg, up[pg.endpoint])
    /\ UNCHANGED <<up, mr, tree, grp, mem, sched, cmd, now, prev, wire, conf>>

\* paginate raised: the exception leaves get_group_members.
MembersRaised ==
    /\ mem.pc = "fetch"
    /\ pg.pc = "raised"
    /\ mem' = [mem EXCEPT !.pc = "raised"]
    /\ UNCHANGED <<up, pg, reqs, mr, tree, grp, sched, cmd, now, prev, wire, conf>>

\* Lines 141-163: the members are built and returned.
MembersReturn ==
    /\ mem.pc = "fetch"
    /\ pg.pc = "returned"
    /\ mem' = [mem EXCEPT !.members = MembersFrom(pg.items, mem.active_only),
                          !.pc = "returned"]
    /\ UNCHANGED <<up, pg, reqs, mr, tree, grp, sched, cmd, now, prev, wire, conf>>

NextMembers == MembersCall \/ MembersFetchPage \/ MembersRaised \/ MembersReturn

SpecMembers == InitMembers /\ [][NextMembers]_vars

(***************************************************************************)
(* GroupsAPI.build_group_tree.  Group objects are shared by reference      *)
(* between groups_dict, the subgroups lists and root_groups, so the model  *)
(* names each by its id.  The frame tree holds                             *)
(*   groups_data  - the flat input, dictionaries with id and parent_id;    *)
(*   keys         - the keys of groups_dict in insertion order;            *)
(*   parent_id    - groups_dict[id].parent_id;                             *)
(*   subgroups    - groups_dict[id].subgroups;                             *)
(*   members      - groups_dict[id].members;                               *)
(*   root_groups  - the list returned;                                     *)
(*   pc           - "idle", "indexed" (after the first pass), "attached"   *)
(*                  (after the second), "returned", "raised".              *)
(***************************************************************************)
TreeArgs(groups_data, fetch_members, active_members_only) ==
    [groups_data |-> groups_data, fetch_members |-> fetch_members,
     active_members_only |-> active_members_only, pc |-> "idle",
     keys |-> <<>>, parent_id |-> <<>>, subgroups |-> <<>>, members |-> <<>>,
     root_groups |-> <<>>]

Range(s) == {s[i] : i \in 1..Len(s)}

\* One iteration of the first pass: groups_dict[group.id] = group, a new
\* Group with no members and no subgroups.
IndexGroup(t, group_data) ==
    [t EXCEPT !.keys = IF group_data.id \in Range(t.keys) THEN t.keys
                       ELSE Append(t.keys, group_data.id),
              !.parent_id = (group_data.id :> group_data.parent_id) @@ t.parent_id,
              !.subgroups = (group_data.id :> <<>>) @@ t.subgroups,
              !.members = (group_data.id :> <<>>) @@ t.members]

\* The first pass over groups_data[1..n].
RECURSIVE FirstPass(_, _)
FirstPass(t, n) ==
    IF n = 0 THEN t ELSE IndexGroup(FirstPass(t, n - 1), t.groups_data[n])

\* Faulty variant of the second pass: a group whose parent is not in the
\* input is dropped.
AttachGroupDropsOrphan(t, id) ==
    LET parent_id == t.parent_id[id] IN
    IF TruthyInt(parent_id) /\ parent_id[1] \in Range(t.keys)
    THEN [t EXCEPT !.subgroups[parent_id[1]] = Append(@, id)]
    ELSE IF TruthyInt(parent_id) THEN t
    ELSE [t EXCEPT !.root_groups = Append(@, id)]

\* One iteration of the second pass, for the group of the given id.
AttachGroup(t, id) ==
    LET parent_id == t.parent_id[id] IN
    IF TruthyInt(parent_id) /\ parent_id[1] \in Range(t.keys)
    THEN [t EXCEPT !.subgroups[parent_id[1]] = Append(@, id)]
    ELSE [t EXCEPT !.root_groups = Append(@, id)]

\* The second pass over groups_dict.values()[1..n].
RECURSIVE SecondPass(_, _)
SecondPass(t, n) ==
    IF n = 0 THEN t ELSE AttachGroup(SecondPass(t, n - 1), t.keys[n])

\* The third pass: every group's members are fetched; the first fetch
\* that raises ends build_group_tree with its exception.  Every group's
\* members endpoint serves the same feed.
FetchAllMembers(t, feed) ==
    LET got == GetGroupMembers(feed, t.active_members_only) IN
    IF t.keys = <<>> THEN [t EXCEPT !.pc = "returned"]
    ELSE IF got.raised THEN [t EXCEPT !.pc = "raised"]
    ELSE [t EXCEPT !.members = [id \in DOMAIN t.members |-> got.members],
                   !.pc = "returned"]

\* The flat inputs: up to MaxGroups groups of distinct ids; a parent_id is
\* None, or an id that may or may not be in the input (MaxGroups + 1 never is).
GroupIds == 1..MaxGroups

ParentIds == {None} \cup {Some(p) : p \in 1..(MaxGroups + 1)}

\* The lists of distinct ids of length n.
IdLists(n) ==
    {ids \in [1..n -> GroupIds] : \A i, j \in 1..n : i # j => ids[i] # ids[j]}

\* The flat input of the given ids and parent ids.
GroupsData(ids, parents) ==
    [i \in 1..Len(ids) |-> [id |-> ids[i], parent_id |-> parents[i]]]

MemberFeeds ==
    {CleanFeed(MembersOf(<<[state |-> Some("active"), membership_state |-> Some("awaiting")],
                           [state |-> Some("blocked"), membership_state |-> Some("active")]>>)),
     [data |-> <<>>, objAt |-> 0, failAt |-> 1]}

\* Members are fetched with either active_members_only against the feed
\* that serves them, or not fetched at all.
InitTree ==
    /\ \E n \in 0..MaxGroups : \E ids \in IdLists(n), parents \in [1..n -> ParentIds] :
          \/ /\ tree = TreeArgs(GroupsData(ids, parents), FALSE, FALSE)
             /\ up = ("groups/members" :> CleanFeed(<<>>))
          \/ \E feed \in MemberFeeds :
                /\ tree = TreeArgs(GroupsData(ids, parents), TRUE, feed.failAt = 0)
                /\ up = ("groups/members" :> feed)
    /\ pg = NoPaginate
    /\ reqs = <<>>
    /\ now = Window
    /\ prev = NoCall
    /\ wire = <<>>
    /\ conf = NoCall
    /\ mr = NoMr
    /\ grp = NoCall
    /\ mem = NoCall
    /\ sched = NoCall
    /\ cmd = NoCall

\* Lines 191-204: the first pass.
TreeFirstPass ==
    /\ tree.pc = "idle"
    /\ tree' = [FirstPass(tree, Len(tree.groups_data)) EXCEPT !.pc = "indexed"]
    /\ UNCHANGED <<up, pg, reqs, mr, grp, mem, sched, cmd, now, prev, wire, conf>>

\* Lines 206-211: the second pass.
TreeSecondPass ==
    /\ tree.pc = "indexed"
    /\ tree' = [SecondPass(tree, Len(tree.keys)) EXCEPT !.pc = "attached"]
    /\ UNCHANGED <<up, pg, reqs, mr, grp, mem, sched, cmd, now, prev, wire, conf>>

\* Lines 213-219 with fetch_members: the third pass, then the return.
TreeFetchMembers ==
    /\ tree.pc = "attached"
    /\ tree.fetch_members
    /\ tree' = FetchAllMembers(tree, up["groups/members"])
    /\ UNCHANGED <<up, pg, reqs, mr, grp, mem, sched, cmd, now, prev, wire, conf>>

\* Lines 213-219 without fetch_members: the return.
TreeReturn ==
    /\ tree.pc = "attached"
    /\ ~tree.fetch_members
    /\ tree' = [tree EXCEPT !.pc = "returned"]
    /\ UNCHANGED <<up, pg, reqs, mr, grp, mem, sched, cmd, now, prev, wire, conf>>

NextTree == TreeFirstPass \/ TreeSecondPass \/ TreeFetchMembers \/ TreeReturn

SpecTree == InitTree /\ [][NextTree]_vars

(***************************************************************************)
(* GroupsAPI.get_group.  A string is the sequence of its characters, so    *)
(* that strip, isdigit, lower and quote are computed character by          *)
(* character.  A group dictionary holds id and, each possibly absent,      *)
(* full_path, path and name.  The frame grp holds                          *)
(*   group_ref  - the argument (None or a string);                         *)
(*   ref        - the stripped reference;                                  *)
(*   direct     - what the direct lookup returned;                         *)
(*   candidates - what the search returned;                                *)
(*   result     - the value returned (None or a group dictionary);         *)
(*   pc         - "idle", "lookup" (before the direct lookup), "search"    *)
(*                (inside paginate), "returned", "raised".                 *)
(***************************************************************************)
\* str.strip(): leading and trailing blanks removed.
RECURSIVE LStrip(_)
LStrip(s) == IF s # <<>> /\ Head(s) = " " THEN LStrip(Tail(s)) ELSE s

RECURSIVE RStrip(_)
RStrip(s) ==
    IF s # <<>> /\ s[Len(s)] = " " THEN RStrip(SubSeq(s, 1, Len(s) - 1)) ELSE s

Strip(s) == RStrip(LStrip(s))

\* str.isdigit(): nonempty and every character a digit.
IsDigit(s) == s # <<>> /\ \A i \in 1..Len(s) : s[i] \in {"0", "1", "2", "3"}

\* str.lower(), character by character, for the letters modelled.
LowerChar(c) == IF c = "A" THEN "a" ELSE IF c = "Y" THEN "y" ELSE c

LowerStr(s) == [i \in 1..Len(s) |-> LowerChar(s[i])]

\* urllib.parse.quote(ref, safe=""): "/" and " " are percent-encoded.
QuoteChar(c) == IF c = "/" THEN "%2F" ELSE IF c = " " THEN "%20" ELSE c

Quote(s) == [i \in 1..Len(s) |-> QuoteChar(s[i])]

\* d.get(key, ""), the key's value being None when the key is absent.
GetStr(value) == IF value = None THEN <<>> ELSE value[1]

\* The search limit get_group passes to paginate.
GroupSearchLimit == 100

GroupArgs(group_ref) ==
    [group_ref |-> group_ref, ref |-> <<>>, direct |-> None, candidates |-> <<>>,
     searched |-> FALSE, result |-> None, pc |-> "idle"]

\* _run_api_request_optional("groups/<key>"): the dictionary of the group
\* the upstream holds under that id or that encoded full path, None when it
\* answers 404, and the exception of any other failure.
RunApiRequestOptional(lookup, groups, key) ==
    IF lookup.fails THEN [kind |-> "raise", body |-> None]
    ELSE LET hits == {i \in 1..Len(groups) :
                         \/ IsDigit(key) /\ Len(key) = 1 /\ ParseInt(key[1]) = Some(groups[i].id)
                         \/ Quote(GetStr(groups[i].full_path)) = key} IN
         IF hits = {} THEN [kind |-> "none", body |-> None]
         ELSE [kind |-> "object", body |-> Some(groups[CHOOSE i \in hits : TRUE])]

\* Faulty variant of the resolution: of several path matches the first is
\* returned.
ResolveGroupFirstOfMany(candidates, ref) ==
    LET ref_lower == LowerStr(ref)
        path_matches ==
            SelectSeq(candidates,
                      LAMBDA g : \/ LowerStr(GetStr(g.full_path)) = ref_lower
                                 \/ LowerStr(GetStr(g.path)) = ref_lower)
        name_matches ==
            SelectSeq(candidates, LAMBDA g : LowerStr(GetStr(g.name)) = ref_lower)
    IN  IF candidates = <<>> THEN None
        ELSE IF Len(path_matches) >= 1 THEN Some(path_matches[1])
        ELSE IF Len(name_matches) = 1 THEN Some(name_matches[1])
        ELSE None

\* Lines 83-104: the candidates resolved to one group or to None.
ResolveGroup(candidates, ref) ==
    LET ref_lower == LowerStr(ref)
        path_matches ==
            SelectSeq(candidates,
                      LAMBDA g : \/ LowerStr(GetStr(g.full_path)) = ref_lower
                                 \/ LowerStr(GetStr(g.path)) = ref_lower)
        name_matches ==
            SelectSeq(candidates, LAMBDA g : LowerStr(GetStr(g.name)) = ref_lower)
    IN  IF candidates = <<>> THEN None
        ELSE IF Len(path_matches) = 1 THEN Some(path_matches[1])
        ELSE IF Len(path_matches) > 1 THEN None
        ELSE IF Len(name_matches) = 1 THEN Some(name_matches[1])
        ELSE IF Len(name_matches) > 1 THEN None
        ELSE None

\* The groups the upstream may hold, without their ids: full_path, path
\* (its last segment) and name.
GroupShapes ==
    {[full_path |-> Some(<<"a">>), path |-> Some(<<"a">>), name |-> None],
     [full_path |-> Some(<<"A">>), path |-> Some(<<"A">>), name |-> Some(<<"n">>)],
     [full_path |-> Some(<<"x", "/", "a">>), path |-> Some(<<"a">>),
      name |-> Some(<<"a">>)],
     [full_path |-> Some(<<"b">>), path |-> Some(<<"b">>), name |-> Some(<<"a">>)],
     [full_path |-> Some(<<"y", "/", "A">>), path |-> Some(<<"A">>),
      name |-> Some(<<"A">>)],
     [full_path |-> Some(<<"c">>), path |-> Some(<<"c">>), name |-> Some(<<"A">>)]}

\* The lists of n distinct shapes.
ShapeLists(n) ==
    {s \in [1..n -> GroupShapes] : \A i, j \in 1..n : s[i] = s[j] => i = j}

\* The upstream's groups: the shapes numbered from 1.
GroupsOf(shapes) ==
    [i \in 1..Len(shapes) |->
        [id |-> i, full_path |-> shapes[i].full_path, path |-> shapes[i].path,
         name |-> shapes[i].name]]

\* The references get_group is called with.
GroupRefs ==
    {None, Some(<<>>), Some(<<" ">>), Some(<<"a">>), Some(<<"A">>),
     Some(<<" ", "a", " ">>), Some(<<"x", "/", "a">>), Some(<<"1">>),
     Some(<<"n">>)}

\* The search serves the upstream's groups, answers with an object, or
\* fails; the direct lookup answers or fails.
InitGroup ==
    /\ \E n \in 0..MaxCandidates : \E shapes \in ShapeLists(n) :
       \E objAt \in 0..1, failAt \in 0..1, fails \in BOOLEAN :
          up = ("groups" :> [data |-> GroupsOf(shapes), objAt |-> objAt,
                             failAt |-> failAt])
               @@ ("groups/ref" :> [fails |-> fails])
    /\ grp \in {GroupArgs(r) : r \in GroupRefs}
    /\ pg = NoPaginate
    /\ reqs = <<>>
    /\ now = Window
    /\ prev = NoCall
    /\ wire = <<>>
    /\ conf = NoCall
    /\ mr = NoMr
    /\ tree = NoTree
    /\ mem = NoCall
    /\ sched = NoCall
    /\ cmd = NoCall

\* Lines 64-66: the reference is stripped; an empty one gives None.
GroupCall ==
    /\ grp.pc = "idle"
    /\ LET ref == Strip(GetStr(grp.group_ref)) IN
       grp' = IF ref = <<>> THEN [grp EXCEPT !.ref = ref, !.pc = "returned"]
              ELSE [grp EXCEPT !.ref = ref, !.pc = "lookup"]
    /\ UNCHANGED <<up, pg, reqs, mr, tree, mem, sched, cmd, now, prev, wire, conf>>

\* Lines 69-71: the lookup by numeric id; its answer is the result.
GroupLookupById ==
    /\ grp.pc = "lookup"
    /\ IsDigit(grp.ref)
    /\ LET group == RunApiRequestOptional(up["groups/ref"], up["groups"].data, grp.ref) IN
       grp' = IF group.kind = "raise" THEN [grp EXCEPT !.pc = "raised"]
              ELSE [grp EXCEPT !.direct = group.body, !.result = group.body,
                               !.pc = "returned"]
    /\ reqs' = Append(reqs, [endpoint |-> <<"groups", grp.ref>>, page |-> 0,
                             per_page |-> 0])
    /\ UNCHANGED <<up, pg, mr, tree, mem, sched, cmd, now, prev, wire, conf>>

\* Faulty variant of the lookup by encoded full path: the search is entered
\* whatever the lookup answered.
GroupLookupByPathAlwaysSearches ==
    /\ grp.pc = "lookup"
    /\ ~IsDigit(grp.ref)
    /\ LET group == RunApiRequestOptional(up["groups/ref"], up["groups"].data,
                                          Quote(grp.ref)) IN
       IF group.kind = "raise"
       THEN grp' = [grp EXCEPT !.pc = "raised"] /\ pg' = pg
       ELSE /\ grp' = [grp EXCEPT !.direct = group.body, !.pc = "search",
                                  !.searched = TRUE]
            /\ pg' = PaginateEnter(PaginateArgs("groups", DefaultPerPage,
                                                Some(GroupSearchLimit), FALSE))
    /\ reqs' = Append(reqs, [endpoint |-> <<"groups", Quote(grp.ref)>>, page |-> 0,
                             per_page |-> 0])
    /\ UNCHANGED <<up, mr, tree, mem, sched, cmd, now, prev, wire, conf>>

\* Lines 74-82: the lookup by encoded full path; a dictionary is the
\* result, anything else enters the search.
GroupLookupByPath ==
    /\ grp.pc = "lookup"
    /\ ~IsDigit(grp.ref)
    /\ LET group == RunApiRequestOptional(up["groups/ref"], up["groups"].data,
                                          Quote(grp.ref)) IN
       IF group.kind = "raise"
       THEN grp' = [grp EXCEPT !.pc = "raised"] /\ pg' = pg
       ELSE IF group.kind = "object"
       THEN /\ grp' = [grp EXCEPT !.direct = group.body, !.result = group.body,
                                  !.pc = "returned"]
            /\ pg' = pg
       ELSE /\ grp' = [grp EXCEPT !.pc = "search", !.searched = TRUE]
            /\ pg' = PaginateEnter(PaginateArgs("groups", DefaultPerPage,
                                                Some(GroupSearchLimit), FALSE))
    /\ reqs' = Append(reqs, [endpoint |-> <<"groups", Quote(grp.ref)>>, page |-> 0,
                             per_page |-> 0])
    /\ UNCHANGED <<up, mr, tree, mem, sched, cmd, now, prev, wire, conf>>

\* One iteration of the loop of the search's paginate.
GroupSearchPage ==
    /\ grp.pc = "search"
    /\ pg.pc = "loop"
    /\ reqs' = Append(reqs, RequestOf(pg))
    /\ pg' = PaginateIter(pg, up[pg.endpoint])
    /\ UNCHANGED <<up, mr, tree, grp, mem, sched, cmd, now, prev, wire, conf>>

\* The search raised: the exception leaves get_group.
GroupSearchRaised ==
    /\ grp.pc = "search"
    /\ pg.pc = "raised"
    /\ grp' = [grp EXCEPT !.pc = "raised"]
    /\ UNCHANGED <<up, pg, reqs, mr, tree, mem, sched, cmd, now, prev, wire, conf>>

\* Lines 83-104: the candidates are resolved.
GroupResolve ==
    /\ grp.pc = "search"
    /\ pg.pc = "returned"
    /\ grp' = [grp EXCEPT !.candidates = pg.items,
                          !.result = ResolveGroup(pg.items, grp.ref),
                          !.pc = "returned"]
    /\ UNCHANGED <<up, pg, reqs, mr, tree, mem, sched, cmd, now, prev, wire, conf>>

NextGroup ==
    \/ GroupCall
    \/ GroupLookupById
    \/ GroupLookupByPath
    \/ GroupSearchPage
    \/ GroupSearchRaised
    \/ GroupResolve

SpecGroup == InitGroup /\ [][NextGroup]_vars

(***************************************************************************)
(* PipelineSchedulesAPI: get_schedules, _get_schedules_with_graphql,       *)
(* _get_schedules_with_rest_fallback and get_schedule_pipelines.           *)
(* The upstream holds the project's schedules (id, active) under           *)
(* "pipeline_schedules" and each schedule's pipelines (id, status) under   *)
(* its own endpoint; "graphql" holds how the GraphQL endpoint answers.     *)
(* The frame sched holds                                                   *)
(*   entry          - the method called;                                   *)
(*   scope, limit, include_last_pipeline - its arguments;                  *)
(*   graphql        - None before any GraphQL query, then "ok"/"failed";   *)
(*   schedules_data - the dictionaries the REST strategy fetched;          *)
(*   i              - the position of the loop over schedules_data;        *)
(*   schedules      - the list under construction;                         *)
(*   caught         - the exceptions of get_schedule_pipelines caught;     *)
(*   result         - the list returned;                                   *)
(*   pc             - "idle", "fast", "rest" (inside paginate), "each" (at *)
(*                    the head of the loop), "pipelines" (inside           *)
(*                    get_schedule_pipelines), "returned", "raised".       *)
(***************************************************************************)
\* The ids of the schedules and of the pipelines modelled.
ScheduleIds == {1, 2}

\* The limit the REST strategy passes to get_schedule_pipelines.
SchedulePipelinesLimit == 10
\* The `first` of the GraphQL query when no limit is given.
GraphqlDefaultFirst == 100

SchedulesEndpoint == "pipeline_schedules"

\* f"projects/{encoded_path}/pipeline_schedules/{schedule_id}/pipelines"
SchedulePipelinesEndpoint(schedule_id) ==
    IF schedule_id = 1 THEN "pipeline_schedules/1/pipelines"
    ELSE "pipeline_schedules/2/pipelines"

\* What the upstream serves for params["scope"]: every schedule, the
\* active ones or the inactive ones.
ScopedFeed(feed, scope) ==
    IF ~TruthyStr(scope) THEN feed
    ELSE [feed EXCEPT !.data = SelectSeq(feed.data,
                                         LAMBDA s : s.active = (scope[1] = "active"))]

\* _parse_schedule: the list endpoint delivers no last_pipeline.
ParseSchedule(data) ==
    [id |-> data.id, active |-> data.active, last_pipeline |-> None]

ParseSchedules(schedules_data) ==
    [k \in 1..Len(schedules_data) |-> ParseSchedule(schedules_data[k])]

\* list.sort(key=lambda p: p.id, reverse=True), by insertion.
RECURSIVE InsertDesc(_, _)
InsertDesc(sorted, p) ==
    IF sorted = <<>> THEN <<p>>
    ELSE IF p.id > Head(sorted).id THEN <<p>> \o sorted
    ELSE <<Head(sorted)>> \o InsertDesc(Tail(sorted), p)

RECURSIVE SortDesc(_)
SortDesc(pipelines) ==
    IF pipelines = <<>> THEN <<>>
    ELSE InsertDesc(SortDesc(SubSeq(pipelines, 1, Len(pipelines) - 1)),
                    pipelines[Len(pipelines)])

\* [PipelinesAPI._parse_pipeline(p) for p in pipelines_data] (the fields the
\* schedule listing reads).
ParseSchedulePipelines(pipelines_data) ==
    [k \in 1..Len(pipelines_data) |->
        [id |-> pipelines_data[k].id, status |-> pipelines_data[k].status]]

\* Faulty variant of get_schedule_pipelines: the Pipelines are left in the
\* upstream's order.
SchedulePipelinesUnsorted(f) ==
    [raised |-> f.pc = "raised",
     pipelines |-> IF f.pc = "raised" THEN <<>> ELSE ParseSchedulePipelines(f.items)]

\* get_schedule_pipelines after its paginate (frame f): the Pipelines
\* sorted by id descending, or the exception.
SchedulePipelines(f) ==
    [raised |-> f.pc = "raised",
     pipelines |-> IF f.pc = "raised" THEN <<>> ELSE SortDesc(ParseSchedulePipelines(f.items))]

\* Lines 168-201: the rest of the loop body once get_schedule_pipelines has
\* ended (got): its first pipeline becomes last_pipeline, its exception is
\* caught; after the last schedule the list is returned.
AttachLastPipeline(s, got) ==
    LET schedule == ParseSchedule(s.schedules_data[s.i])
        last == IF ~got.raised /\ got.pipelines # <<>>
                THEN Some([id |-> got.pipelines[1].id, status |-> got.pipelines[1].status])
                ELSE None
        schedules == Append(s.schedules, [schedule EXCEPT !.last_pipeline = last])
        caught == IF got.raised THEN s.caught + 1 ELSE s.caught IN
    IF s.i = Len(s.schedules_data)
    THEN [s EXCEPT !.schedules = schedules, !.caught = caught, !.result = schedules,
                   !.pc = "returned"]
    ELSE [s EXCEPT !.schedules = schedules, !.caught = caught, !.i = s.i + 1,
                   !.pc = "each"]

\* The id a GraphQL node carries: a numeral, or a global id.
NodeId(k, gid) == IF gid THEN "gid://gitlab/" ELSE Numeral[k]

\* The pipeline of greatest id, the first under sort: CREATED_DESC.
NewestFirst(pipelines) ==
    IF pipelines = <<>> THEN <<>>
    ELSE <<CHOOSE p \in {pipelines[k] : k \in 1..Len(pipelines)} :
               \A k \in 1..Len(pipelines) : pipelines[k].id <= p.id>>

\* The nodes the GraphQL endpoint serves: the first `first` schedules, each
\* with its newest pipeline.
GraphqlNodes(upstream, first) ==
    LET all == upstream[SchedulesEndpoint].data
        gid == upstream["graphql"].gid IN
    [k \in 1..Min(first, Len(all)) |->
        [id |-> NodeId(all[k].id, gid), active |-> all[k].active,
         pipelines |->
            LET newest == NewestFirst(upstream[SchedulePipelinesEndpoint(all[k].id)].data) IN
            [j \in 1..Len(newest) |->
                [id |-> NodeId(newest[j].id, gid), status |-> newest[j].status]]]]

\* _parse_schedule_from_graphql: the schedule, or None where it raises: the
\* import of ..client fails, or int() is given an id that is no numeral.
ParseScheduleFromGraphql(data, importable) ==
    IF ~importable THEN None
    ELSE IF data.pipelines # <<>> /\ ParseInt(data.pipelines[1].id) = None THEN None
    ELSE IF ParseInt(data.id) = None THEN None
    ELSE Some([id |-> ParseInt(data.id)[1], active |-> data.active,
               last_pipeline |->
                  IF data.pipelines = <<>> THEN None
                  ELSE Some([id |-> ParseInt(data.pipelines[1].id)[1],
                             status |-> data.pipelines[1].status])])

\* Lines 116-142: the body of the try block: the query and the reading of
\* its response.  raised tells that an exception left it.
GraphqlAttempt(upstream, scope, limit) ==
    LET answer == upstream["graphql"]
        first == IF TruthyInt(limit) THEN limit[1] ELSE GraphqlDefaultFirst
        nodes == GraphqlNodes(upstream, first)
        schedules_data ==
            IF TruthyStr(scope)
            THEN SelectSeq(nodes, LAMBDA s : IF scope[1] = "active" THEN s.active
                                                ELSE ~s.active)
            ELSE nodes
        parsed == [k \in 1..Len(schedules_data) |->
                      ParseScheduleFromGraphql(schedules_data[k], answer.importable)] IN
    IF answer.outcome \in {"transport", "http", "errors", "null_project"}
    THEN [raised |-> TRUE, schedules |-> <<>>]
    ELSE IF \E k \in 1..Len(parsed) : parsed[k] = None
    THEN [raised |-> TRUE, schedules |-> <<>>]
    ELSE [raised |-> FALSE, schedules |-> [k \in 1..Len(parsed) |-> parsed[k][1]]]

SchedArgs(entry, scope, limit, include_last_pipeline) ==
    [entry |-> entry, scope |-> scope, limit |-> limit,
     include_last_pipeline |-> include_last_pipeline, graphql |-> None,
     schedules_data |-> <<>>, i |-> 0, schedules |-> <<>>, caught |-> 0,
     result |-> <<>>, pc |-> "idle"]

\* Faulty variant of the except block: the GraphQL exception is re-raised.
OnGraphqlExceptionReraises(s) == [s EXCEPT !.graphql = Some("failed"), !.pc = "raised"]

\* Lines 144-148: the except block enters the REST strategy.
OnGraphqlException(s) == [s EXCEPT !.graphql = Some("failed"), !.pc = "rest"]

\* The schedules the upstream holds.
RawSchedules ==
    {<<>>}
    \cup {<<[id |-> 1, active |-> a]>> : a \in BOOLEAN}
    \cup {<<[id |-> j, active |-> a], [id |-> 3 - j, active |-> b]>> :
             j \in ScheduleIds, a, b \in BOOLEAN}

\* The pipelines of a schedule as the upstream lists them, in its order.
SchedulePipelineLists ==
    {<<>>, <<[id |-> 1, status |-> "success"]>>,
     <<[id |-> 1, status |-> "success"], [id |-> 2, status |-> "running"]>>,
     <<[id |-> 2, status |-> "running"], [id |-> 1, status |-> "success"]>>}

\* A schedule with one pipeline more than the REST strategy fetches, listed
\* oldest first.
LongPipelineFeed ==
    CleanFeed([k \in 1..(SchedulePipelinesLimit + 1) |-> [id |-> k, status |-> "success"]])

SchedulePipelineFeeds ==
    {CleanFeed(d) : d \in SchedulePipelineLists}
    \cup {[data |-> <<[id |-> 1, status |-> "success"]>>, objAt |-> 0, failAt |-> 1]}

ScheduleFeeds ==
    {CleanFeed(d) : d \in RawSchedules}
    \cup {[data |-> <<>>, objAt |-> 0, failAt |-> 1]}

\* How the GraphQL endpoint answers: a transport error, an HTTP error, a
\* top-level errors array, a null project, or the nodes (with numeral or
\* global ids, the module ..client importable or not).
GraphqlAnswers ==
    {[outcome |-> o, gid |-> FALSE, importable |-> TRUE] :
        o \in {"transport", "http", "errors", "null_project"}}
    \cup [outcome : {"nodes"}, gid : BOOLEAN, importable : BOOLEAN]

Scopes == {None, Some("active"), Some("inactive")}

SchedCalls ==
    {SchedArgs(e[1], scope, limit, e[2]) :
        e \in {<<"get_schedules", FALSE>>, <<"get_schedules", TRUE>>,
               <<"_get_schedules_with_graphql", TRUE>>},
        scope \in Scopes, limit \in MrLimits}

\* The pipelines feeds and the GraphQL answer are drawn freely only where
\* the call reads them; the long feed is served to get_schedules, whose
\* REST strategy reads pipeline ids as integers.
InitSched ==
    /\ sched \in SchedCalls
    /\ \E schedules \in ScheduleFeeds :
       \E p1 \in IF sched.include_last_pipeline /\ schedules.data # <<>>
                 THEN SchedulePipelineFeeds
                      \cup (IF sched.entry = "get_schedules"
                            THEN {LongPipelineFeed} ELSE {})
                 ELSE {CleanFeed(<<>>)} :
       \E p2 \in IF sched.include_last_pipeline /\ Len(schedules.data) > 1
                 THEN SchedulePipelineFeeds ELSE {CleanFeed(<<>>)} :
       \E answer \in IF sched.entry = "_get_schedules_with_graphql"
                     THEN GraphqlAnswers
                     ELSE {[outcome |-> "nodes", gid |-> FALSE, importable |-> TRUE]} :
          up = (SchedulesEndpoint :> schedules)
               @@ (SchedulePipelinesEndpoint(1) :> p1)
               @@ (SchedulePipelinesEndpoint(2) :> p2)
               @@ ("graphql" :> answer)
    /\ pg = NoPaginate
    /\ reqs = <<>>
    /\ now = Window
    /\ prev = NoCall
    /\ wire = <<>>
    /\ conf = NoCall
    /\ mr = NoMr
    /\ tree = NoTree
    /\ grp = NoCall
    /\ mem = NoCall
    /\ cmd = NoCall

\* Lines 46-54 of get_schedules without include_last_pipeline: paginate is
\* entered for the fast listing.
SchedCallFast ==
    /\ sched.pc = "idle"
    /\ sched.entry = "get_schedules"
    /\ ~sched.include_last_pipeline
    /\ sched' = [sched EXCEPT !.pc = "fast"]
    /\ pg' = PaginateEnter(PaginateArgs(SchedulesEndpoint, DefaultPerPage, sched.limit,
                                        FALSE))
    /\ UNCHANGED <<up, reqs, mr, tree, grp, mem, cmd, now, prev, wire, conf>>

\* Lines 46-48 of get_schedules with include_last_pipeline, then 156-164:
\* _get_schedules_with_rest_fallback is called and enters paginate.
SchedCallEnriched ==
    /\ sched.pc = "idle"
    /\ sched.entry = "get_schedules"
    /\ sched.include_last_pipeline
    /\ sched' = [sched EXCEPT !.pc = "rest"]
    /\ pg' = PaginateEnter(PaginateArgs(SchedulesEndpoint, DefaultPerPage, sched.limit,
                                        FALSE))
    /\ UNCHANGED <<up, reqs, mr, tree, grp, mem, cmd, now, prev, wire, conf>>

\* Lines 116-148 of _get_schedules_with_graphql: the query is sent; its
\* schedules are returned, or the except block enters the REST strategy.
SchedGraphql ==
    /\ sched.pc = "idle"
    /\ sched.entry = "_get_schedules_with_graphql"
    /\ reqs' = Append(reqs, [endpoint |-> "graphql", page |-> 0, per_page |-> 0])
    /\ LET got == GraphqlAttempt(up, sched.scope, sched.limit) IN
       IF got.raised
       THEN /\ sched' = OnGraphqlException(sched)
            /\ pg' = IF sched'.pc = "rest"
                     THEN PaginateEnter(PaginateArgs(SchedulesEndpoint, DefaultPerPage,
                                                     sched.limit, FALSE))
                     ELSE pg
       ELSE /\ sched' = [sched EXCEPT !.graphql = Some("ok"), !.result = got.schedules,
                                      !.pc = "returned"]
            /\ pg' = pg
    /\ UNCHANGED <<up, mr, tree, grp, mem, cmd, now, prev, wire, conf>>

\* One iteration of the loop of the schedules' paginate.
SchedFetchPage ==
    /\ sched.pc \in {"fast", "rest"}
    /\ pg.pc = "loop"
    /\ reqs' = Append(reqs, RequestOf(pg))
    /\ pg' = PaginateIter(pg, ScopedFeed(up[pg.endpoint], sched.scope))
    /\ UNCHANGED <<up, mr, tree, grp, mem, sched, cmd, now, prev, wire, conf>>

\* The schedules' paginate raised: the exception leaves the call.
SchedFetchRaised ==
    /\ sched.pc \in {"fast", "rest"}
    /\ pg.pc = "raised"
    /\ sched' = [sched EXCEPT !.pc = "raised"]
    /\ UNCHANGED <<up, pg, reqs, mr, tree, grp, mem, cmd, now, prev, wire, conf>>

\* Line 64: the fast listing returns the parsed schedules.
SchedFastReturn ==
    /\ sched.pc = "fast"
    /\ pg.pc = "returned"
    /\ sched' = [sched EXCEPT !.schedules_data = pg.items,
                              !.result = ParseSchedules(pg.items), !.pc = "returned"]
    /\ UNCHANGED <<up, pg, reqs, mr, tree, grp, mem, cmd, now, prev, wire, conf>>

\* Lines 166-167 and 201: the loop over schedules_data begins, or with no
\* schedule the empty list is returned.
SchedLoopEnter ==
    /\ sched.pc = "rest"
    /\ pg.pc = "returned"
    /\ sched' = IF pg.items = <<>>
                THEN [sched EXCEPT !.pc = "returned"]
                ELSE [sched EXCEPT !.schedules_data = pg.items, !.i = 1, !.pc = "each"]
    /\ UNCHANGED <<up, pg, reqs, mr, tree, grp, mem, cmd, now, prev, wire, conf>>

\* Lines 168-174 and 347-351: get_schedule_pipelines is called for the
\* schedule at hand and enters paginate.
SchedPipelinesEnter ==
    /\ sched.pc = "each"
    /\ sched' = [sched EXCEPT !.pc = "pipelines"]
    /\ pg' = PaginateEnter(PaginateArgs(
                 SchedulePipelinesEndpoint(sched.schedules_data[sched.i].id),
                 DefaultPerPage, Some(SchedulePipelinesLimit), FALSE))
    /\ UNCHANGED <<up, reqs, mr, tree, grp, mem, cmd, now, prev, wire, conf>>

\* One iteration of the loop of the pipelines' paginate.
SchedPipelinesPage ==
    /\ sched.pc = "pipelines"
    /\ pg.pc = "loop"
    /\ reqs' = Append(reqs, RequestOf(pg))
    /\ pg' = PaginateIter(pg, up[pg.endpoint])
    /\ UNCHANGED <<up, mr, tree, grp, mem, sched, cmd, now, prev, wire, conf>>

\* Lines 353-375 and 175-201: get_schedule_pipelines has ended; the loop
\* body finishes.
SchedPipelinesDone ==
    /\ sched.pc = "pipelines"
    /\ pg.pc # "loop"
    /\ sched' = AttachLastPipeline(sched, SchedulePipelines(pg))
    /\ UNCHANGED <<up, pg, reqs, mr, tree, grp, mem, cmd, now, prev, wire, conf>>

NextSched ==
    \/ SchedCallFast
    \/ SchedCallEnriched
    \/ SchedGraphql
    \/ SchedFetchPage
    \/ SchedFetchRaised
    \/ SchedFastReturn
    \/ SchedLoopEnter
    \/ SchedPipelinesEnter
    \/ SchedPipelinesPage
    \/ SchedPipelinesDone

SpecSched == InitSched /\ [][NextSched]_vars

(***************************************************************************)
(* The commands that act on one resource, and the API methods they call.   *)
(* The upstream answers a single request with a JSON object, a falsy body  *)
(* ("empty": {} or null), a list, HTTP 404 ("not_found"), another error    *)
(* status ("http_error"), or not at all ("transport").  up.lookup[i] and   *)
(* up.action[i] are its answers to the i-th lookup and to the i-th         *)
(* trigger, create or update.  The frame cmd holds                         *)
(*   command   - the command run;                                          *)
(*   n         - the merge requests listed (for mergerequests list);       *)
(*   i         - the position of the loop over them;                       *)
(*   looked_up - how the last lookup ended: "value", "none", "raised";     *)
(*   not_found - a not-found message was printed;                          *)
(*   exit_code - None while running, then the process's exit status;       *)
(*   pc        - "idle", "loop", "exited".                                 *)
(***************************************************************************)
Answers == {"object", "empty", "list", "not_found", "http_error", "transport"}

\* _run_api_request for one request: raise_for_status and the transport's
\* exceptions are re-raised; otherwise the body.
RunApiRequestOnce(answer) ==
    IF answer \in {"not_found", "http_error", "transport"} THEN "raised" ELSE answer

\* _run_api_request_optional for one request: None on 404.
RunApiRequestOptionalOnce(answer) ==
    IF answer = "not_found" THEN "none" ELSE RunApiRequestOnce(answer)

\* `if not data or isinstance(data, list): return None`, else the parsed
\* object; an exception passes through.
ObjectOrNone(data) ==
    IF data = "raised" THEN "raised" ELSE IF data = "object" THEN "value" ELSE "none"

\* ProjectsAPI.get_project and get_project_by_id.
GetProject(answer) == ObjectOrNone(RunApiRequestOnce(answer))

\* PipelinesAPI.trigger_mr_pipeline.
TriggerMrPipeline(answer) == ObjectOrNone(RunApiRequestOnce(answer))

\* PipelineSchedulesAPI.get_schedule and MergeRequestsAPI.get_merge_request.
GetOptional(answer) == ObjectOrNone(RunApiRequestOptionalOnce(answer))

\* PipelineSchedulesAPI.trigger_schedule: every exception is caught.
TriggerSchedule(answer) ==
    IF RunApiRequestOnce(answer) = "object" THEN "value" ELSE "none"

\* PipelineSchedulesAPI.create_schedule and update_schedule: the schedule,
\* or on failure None or the request's exception.
WriteSchedule(answer, raises) ==
    IF answer = "object" THEN "value"
    ELSE IF raises /\ RunApiRequestOnce(answer) = "raised" THEN "raised"
    ELSE "none"

\* The process's exit status: 1 after sys.exit(1) or an uncaught exception,
\* 0 after the command returned.
ExitWith(c, code) == [c EXCEPT !.exit_code = Some(code), !.pc = "exited"]

CmdArgs(command, n) ==
    [command |-> command, n |-> n, i |-> 0, looked_up |-> "", not_found |-> FALSE,
     exit_code |-> None, pc |-> "idle"]

ActionCommands ==
    {"pipeline-schedules trigger", "pipeline-schedules create",
     "pipeline-schedules update"}

ShowCommands == {"projects show", "pipeline-schedules show", "mergerequests show"}

\* A command of one request, or mergerequests list --trigger-pipeline over
\* up to MaxListed merge requests, each with its lookup and its trigger.
InitCmd ==
    /\ \/ /\ cmd \in {CmdArgs(c, 0) : c \in ActionCommands \cup ShowCommands}
          /\ up \in [lookup : {<<a>> : a \in Answers}, action : {<<a>> : a \in Answers}]
       \/ \E n \in 1..MaxListed :
             /\ cmd = CmdArgs("mergerequests list", n)
             /\ up \in [lookup : [1..n -> Answers], action : [1..n -> Answers]]
    /\ pg = NoPaginate
    /\ reqs = <<>>
    /\ now = Window
    /\ prev = NoCall
    /\ wire = <<>>
    /\ conf = NoCall
    /\ mr = NoMr
    /\ tree = NoTree
    /\ grp = NoCall
    /\ mem = NoCall
    /\ sched = NoCall

\* trigger_pipeline_schedule, lines 118-141.
CmdTriggerSchedule ==
    /\ cmd.pc = "idle"
    /\ cmd.command = "pipeline-schedules trigger"
    /\ cmd' = IF TriggerSchedule(up.action[1]) = "none" THEN ExitWith(cmd, 1)
              ELSE ExitWith(cmd, 0)
    /\ UNCHANGED <<up, pg, reqs, mr, tree, grp, mem, sched, now, prev, wire, conf>>

\* create_pipeline_schedule, lines 208-213.
CmdCreateSchedule ==
    /\ cmd.pc = "idle"
    /\ cmd.command = "pipeline-schedules create"
    /\ \E raises \in BOOLEAN :
          cmd' = IF WriteSchedule(up.action[1], raises) = "value" THEN ExitWith(cmd, 0)
                 ELSE ExitWith(cmd, 1)
    /\ UNCHANGED <<up, pg, reqs, mr, tree, grp, mem, sched, now, prev, wire, conf>>

\* update_pipeline_schedule, lines 278-283.
CmdUpdateSchedule ==
    /\ cmd.pc = "idle"
    /\ cmd.command = "pipeline-schedules update"
    /\ \E raises \in BOOLEAN :
          cmd' = IF WriteSchedule(up.action[1], raises) = "value" THEN ExitWith(cmd, 0)
                 ELSE ExitWith(cmd, 1)
    /\ UNCHANGED <<up, pg, reqs, mr, tree, grp, mem, sched, now, prev, wire, conf>>

\* list_merge_requests with --trigger-pipeline, lines 61-81: the merge
\* requests are listed and the loop begins.
CmdListMergeRequests ==
    /\ cmd.pc = "idle"
    /\ cmd.command = "mergerequests list"
    /\ cmd' = [cmd EXCEPT !.i = 1, !.pc = "loop"]
    /\ UNCHANGED <<up, pg, reqs, mr, tree, grp, mem, sched, now, prev, wire, conf>>

\* Lines 81-100: one merge request: its project is looked up and its
\* pipeline triggered; an exception of either leaves the command, a None of
\* either prints a message; after the last one the command returns.
CmdTriggerNext ==
    /\ cmd.pc = "loop"
    /\ LET project_obj == GetProject(up.lookup[cmd.i])
           pipeline == TriggerMrPipeline(up.action[cmd.i])
           next == IF cmd.i = cmd.n THEN ExitWith(cmd, 0) ELSE [cmd EXCEPT !.i = cmd.i + 1]
       IN  cmd' = IF project_obj = "raised"
                  THEN [ExitWith(cmd, 1) EXCEPT !.looked_up = "raised"]
                  ELSE IF project_obj = "none"
                  THEN [next EXCEPT !.looked_up = "none"]
                  ELSE IF pipeline = "raised"
                  THEN [ExitWith(cmd, 1) EXCEPT !.looked_up = "value"]
                  ELSE [next EXCEPT !.looked_up = "value"]
    /\ UNCHANGED <<up, pg, reqs, mr, tree, grp, mem, sched, now, prev, wire, conf>>

\* show_project, lines 94-100.
CmdShowProject ==
    /\ cmd.pc = "idle"
    /\ cmd.command = "projects show"
    /\ LET project == GetProject(up.lookup[1]) IN
       cmd' = IF project = "raised" THEN [ExitWith(cmd, 1) EXCEPT !.looked_up = project]
              ELSE [ExitWith(cmd, 0) EXCEPT !.looked_up = project,
                                            !.not_found = (project = "none")]
    /\ UNCHANGED <<up, pg, reqs, mr, tree, grp, mem, sched, now, prev, wire, conf>>

\* show_pipeline_schedule, lines 71-77.
CmdShowSchedule ==
    /\ cmd.pc = "idle"
    /\ cmd.command = "pipeline-schedules show"
    /\ LET schedule == GetOptional(up.lookup[1]) IN
       cmd' = IF schedule = "raised" THEN [ExitWith(cmd, 1) EXCEPT !.looked_up = schedule]
              ELSE [ExitWith(cmd, 0) EXCEPT !.looked_up = schedule,
                                            !.not_found = (schedule = "none")]
    /\ UNCHANGED <<up, pg, reqs, mr, tree, grp, mem, sched, now, prev, wire, conf>>

\* show_merge_request, lines 114-120.
CmdShowMergeRequest ==
    /\ cmd.pc = "idle"
    /\ cmd.command = "mergerequests show"
    /\ LET m == GetOptional(up.lookup[1]) IN
       cmd' = IF m = "raised" THEN [ExitWith(cmd, 1) EXCEPT !.looked_up = m]
              ELSE [ExitWith(cmd, 0) EXCEPT !.looked_up = m, !.not_found = (m = "none")]
    /\ UNCHANGED <<up, pg, reqs, mr, tree, grp, mem, sched, now, prev, wire, conf>>

NextCmd ==
    \/ CmdTriggerSchedule
    \/ CmdCreateSchedule
    \/ CmdUpdateSchedule
    \/ CmdListMergeRequests
    \/ CmdTriggerNext
    \/ CmdShowProject
    \/ CmdShowSchedule
    \/ CmdShowMergeRequest

SpecCmd == InitCmd /\ [][NextCmd]_vars

(***************************************************************************)
(* Two successive calls of the same fetch with the same arguments against  *)
(* the same upstream; the clock may advance between them.                  *)
(***************************************************************************)
\* Merge-request pipelines created on day 1 or on day 2.
DatedPipelines ==
    [ref : {Some(MrRef(k)) : k \in Iids}, status : {"success"}, created_at : {1, 2}]

DatedFeeds ==
    {CleanFeed(d) : d \in UNION {[1..n -> DatedPipelines] : n \in 0..MaxPipelines}}
    \cup {[data |-> <<>>, objAt |-> 0, failAt |-> 1]}

\* A call of get_merge_requests against dated pipelines.
InitDated ==
    /\ \E project_path \in ProjectPaths, pipeline_status \in {None, Some("success")},
          mrFeed \in MrFeeds :
          /\ mr = MrArgs(project_path, pipeline_status, None)
          /\ \E pipelineFeed \in
                 IF TruthyStr(project_path) /\ TruthyStr(pipeline_status)
                    /\ mrFeed.data # <<>>
                 THEN DatedFeeds ELSE {CleanFeed(<<>>)} :
                 up = MrUpstream(mrFeed, pipelineFeed)
    /\ pg = NoPaginate
    /\ reqs = <<>>
    /\ now = Window
    /\ prev = NoCall
    /\ wire = <<>>
    /\ conf = NoCall
    /\ tree = NoTree
    /\ grp = NoCall
    /\ mem = NoCall
    /\ sched = NoCall
    /\ cmd = NoCall

InitTwice == InitPaginate \/ InitDated

\* The first call has ended: its outcome is kept, the clock stands or
\* advances by a day, and the same call is made again.
SecondCall ==
    /\ prev.pc = "off"
    /\ \/ mr.pc \in {"returned", "raised"}
       \/ mr.pc = "off" /\ pg.pc \in {"returned", "raised", "none"}
    /\ prev' = [pc |-> "first", now |-> now,
                ended |-> IF mr.pc = "off" THEN pg.pc ELSE mr.pc,
                result |-> IF mr.pc = "off" THEN pg.items ELSE mr.result]
    /\ \E days \in 0..1 : now' = now + days
    /\ mr' = IF mr.pc = "off" THEN mr
             ELSE MrArgs(mr.project_path, mr.pipeline_status, mr.limit)
    /\ pg' = IF mr.pc = "off"
             THEN PaginateArgs(pg.endpoint, pg.per_page_arg, pg.limit, pg.optional)
             ELSE NoPaginate
    /\ reqs' = <<>>
    /\ UNCHANGED <<up, tree, grp, mem, sched, cmd, wire, conf>>

NextTwice == NextPaginate \/ NextMr \/ SecondCall

SpecTwice == InitTwice /\ [][NextTwice]_vars

(***************************************************************************)
(* A bare paginate call against an upstream that fills every page.         *)
(***************************************************************************)
\* The last page number the model lets a call request.
MaxPage == 5

\* An upstream that returns exactly per_page items for every page number,
\* as far as the requested page shows it.
AlwaysFull(page, per_page) ==
    [data |-> [i \in 1..(page * per_page) |-> i], objAt |-> 0, failAt |-> 0]

InitEndless ==
    /\ up = [items |-> [full |-> TRUE]]
    /\ pg \in {PaginateArgs("items", pp, l, o) :
                  pp \in 1..MaxPerPage,
                  l \in {None} \cup {Some(l) : l \in 0..MaxLimit},
                  o \in BOOLEAN}
    /\ reqs = <<>>
    /\ now = Window
    /\ prev = NoCall
    /\ wire = <<>>
    /\ conf = NoCall
    /\ mr = NoMr
    /\ tree = NoTree
    /\ grp = NoCall
    /\ mem = NoCall
    /\ sched = NoCall
    /\ cmd = NoCall

EndlessIterate ==
    /\ pg.pc = "loop"
    /\ pg.page <= MaxPage
    /\ reqs' = Append(reqs, RequestOf(pg))
    /\ pg' = PaginateIter(pg, AlwaysFull(pg.page, pg.per_page))
    /\ UNCHANGED <<up, mr, tree, grp, mem, sched, cmd, now, prev, wire, conf>>

NextEndless == PaginateCall \/ EndlessIterate

SpecEndless == InitEndless /\ [][NextEndless]_vars

FairSpecEndless == SpecEndless /\ WF_vars(NextEndless)

(***************************************************************************)
(* A bare paginate call with the default page size against a synthetic     *)
(* endpoint of pages of 100, 100, 100 and 42 items, beside the small       *)
(* calls of InitPaginate.                                                  *)
(***************************************************************************)
\* The items the synthetic endpoint holds.
SyntheticItems == 342
\* The limit of the call against the synthetic endpoint.
SyntheticLimit == 150

InitSynthetic ==
    /\ up = [items |-> CleanFeed([i \in 1..SyntheticItems |-> i])]
    /\ pg \in {PaginateArgs("items", DefaultPerPage, l, o) :
                  l \in {None, Some(SyntheticLimit)}, o \in BOOLEAN}
    /\ reqs = <<>>
    /\ now = Window
    /\ prev = NoCall
    /\ wire = <<>>
    /\ conf = NoCall
    /\ mr = NoMr
    /\ tree = NoTree
    /\ grp = NoCall
    /\ mem = NoCall
    /\ sched = NoCall
    /\ cmd = NoCall

InitLimit == InitPaginate \/ InitSynthetic

SpecLimit == InitLimit /\ [][NextPaginate]_vars

(***************************************************************************)
(* get_merge_requests against pipelines whose refs are of any form.        *)
(***************************************************************************)
\* Refs as lists of "/"-segments: those of a merge request, a branch, a
\* non-integer iid segment, a segment after the iid, and a segment before it.
PipelineRefs ==
    {MrRef(k) : k \in Iids}
    \cup {<<"main">>,
          <<"refs", "merge-requests", "x", "head">>,
          <<"refs", "merge-requests", "1", "x", "head">>,
          <<"refs", "merge-requests", "x", "1", "head">>}

AnyRefPipelines ==
    [ref : {Some(r) : r \in PipelineRefs}, status : Statuses, created_at : {1}]

\* A call of get_merge_requests against such pipelines.
InitAnyRef ==
    /\ \E project_path \in ProjectPaths, pipeline_status \in {None, Some("success")},
          mrFeed \in MrFeeds :
          /\ mr = MrArgs(project_path, pipeline_status, None)
          /\ \E n \in 0..MaxPipelines :
             \E d \in IF TruthyStr(project_path) /\ TruthyStr(pipeline_status)
                         /\ mrFeed.data # <<>>
                      THEN [1..n -> AnyRefPipelines] ELSE {<<>>} :
                 up = MrUpstream(mrFeed, CleanFeed(d))
    /\ pg = NoPaginate
    /\ reqs = <<>>
    /\ now = Window
    /\ prev = NoCall
    /\ wire = <<>>
    /\ conf = NoCall
    /\ tree = NoTree
    /\ grp = NoCall
    /\ mem = NoCall
    /\ sched = NoCall
    /\ cmd = NoCall

SpecAnyRef == InitAnyRef /\ [][NextMr]_vars

(***************************************************************************)
(* A bare paginate call with its requests on the wire: _run_api_request    *)
(* sends the request and blocks until the response has arrived.            *)
(***************************************************************************)
\* Faulty variant of the sending: the call does not block, so the request
\* of the next page is sent while one is unanswered.
PaginateSendAhead ==
    /\ pg.pc = "loop"
    /\ mr.pc = "off"
    /\ Len(wire) < 2
    /\ wire' = Append(wire, [RequestOf(pg) EXCEPT !.page = pg.page + Len(wire)])
    /\ reqs' = Append(reqs, [RequestOf(pg) EXCEPT !.page = pg.page + Len(wire)])
    /\ UNCHANGED <<up, pg, mr, tree, grp, mem, sched, cmd, now, prev, conf>>

\* Lines 344-346: the request of the page at hand is sent; the call waits.
PaginateSend ==
    /\ pg.pc = "loop"
    /\ mr.pc = "off"
    /\ wire' = Append(wire, RequestOf(pg))
    /\ reqs' = Append(reqs, RequestOf(pg))
    /\ pg' = [pg EXCEPT !.pc = "wait"]
    /\ UNCHANGED <<up, mr, tree, grp, mem, sched, cmd, now, prev, conf>>

\* Lines 346-362: the response arrives and the rest of the iteration runs.
PaginateReceive ==
    /\ pg.pc = "wait"
    /\ wire # <<>>
    /\ wire' = Tail(wire)
    /\ pg' = PaginateIter([pg EXCEPT !.pc = "loop", !.page = Head(wire).page],
                          up[Head(wire).endpoint])
    /\ UNCHANGED <<up, reqs, mr, tree, grp, mem, sched, cmd, now, prev, conf>>

NextWire == PaginateCall \/ PaginateSend \/ PaginateReceive

SpecWire == InitPaginate /\ [][NextWire]_vars

(***************************************************************************)
(* The process-wide configuration: the class variables of GitLabClient,    *)
(* set by cli() at startup and read by every request.  conf holds them     *)
(* with the command line (opts), the environment (env), what               *)
(* _read_glab_config finds (glab), the settings as startup left them       *)
(* (startup), and pc: "start", "ready" after cli(), "writing" inside a     *)
(* schedule create or update, "done" after the command.                    *)
(***************************************************************************)
\* base_url.rstrip("/"), for the URLs modelled.
RStripSlash(url) == IF url = "https://u/" THEN "https://u" ELSE url

\* a or b, for Optional[str] values.
OrElse(a, b) == IF TruthyStr(a) THEN a ELSE b

\* set_base_url
SetBaseUrl(settings, base_url) ==
    [settings EXCEPT !.base_url = IF TruthyStr(base_url)
                                  THEN Some(RStripSlash(base_url[1])) ELSE None]

\* set_token
SetToken(settings, token) == [settings EXCEPT !.token = token]

\* set_repo_path
SetRepoPath(settings, repo_path) == [settings EXCEPT !.repo_path = repo_path]

\* configure_from_env: the environment, then the glab configuration, then
\* the default URL; the result is set whatever was set before.
ConfigureFromEnv(settings, env, glab) ==
    LET env_url == OrElse(env.GITLAB_URL, env.CI_SERVER_URL)
        env_token == OrElse(env.GITLAB_TOKEN,
                     OrElse(env.GL_TOKEN,
                     OrElse(env.CI_JOB_TOKEN,
                     OrElse(env.CI_API_TOKEN, env.GITLAB_ACCESS_TOKEN))))
        read == ~(TruthyStr(env_url) /\ TruthyStr(env_token))
        url == IF read /\ TruthyStr(glab.url) /\ ~TruthyStr(env_url)
               THEN glab.url ELSE env_url
        token == IF read /\ TruthyStr(glab.token) /\ ~TruthyStr(env_token)
                 THEN glab.token ELSE env_token
        base_url == IF ~TruthyStr(url) THEN Some("https://gitlab.com") ELSE url
        with_url == SetBaseUrl(settings, base_url) IN
    IF TruthyStr(token) THEN SetToken(with_url, token) ELSE with_url

\* The class variables before cli() runs.
Unconfigured == [base_url |-> None, token |-> None, repo_path |-> None, debug |-> FALSE]

\* cli(): click fills --gitlab-url and --token, when not on the command
\* line, from their envvar (opts.repo_path and opts.debug are the values
\* click hands over); then lines 45-55.
CliBody(opts, env, glab) ==
    LET gitlab_url == OrElse(opts.gitlab_url, env.GITLAB_URL)
        token == OrElse(opts.token, env.GITLAB_TOKEN)
        s1 == IF TruthyStr(gitlab_url) THEN SetBaseUrl(Unconfigured, gitlab_url)
              ELSE Unconfigured
        s2 == IF TruthyStr(token) THEN SetToken(s1, token) ELSE s1
        s3 == ConfigureFromEnv(s2, env, glab)
        s4 == IF TruthyStr(opts.repo_path) THEN SetRepoPath(s3, opts.repo_path) ELSE s3 IN
    IF opts.debug THEN [s4 EXCEPT !.debug = TRUE] ELSE s4

\* The settings a frame holds.
SettingsOf(c) ==
    [base_url |-> c.base_url, token |-> c.token, repo_path |-> c.repo_path,
     debug |-> c.debug]

\* The frame with the settings replaced.
WithSettings(c, settings) ==
    [c EXCEPT !.base_url = settings.base_url, !.token = settings.token,
              !.repo_path = settings.repo_path, !.debug = settings.debug]

OptionalOf(values) == {None} \cup {Some(v) : v \in values}

InitCli ==
    /\ \E opts \in [gitlab_url : OptionalOf({"https://u", "https://u/"}),
                    token : OptionalOf({"T"}),
                    repo_path : OptionalOf({"repo"}),
                    debug : BOOLEAN],
          env \in [GITLAB_URL : OptionalOf({"https://env"}),
                   CI_SERVER_URL : OptionalOf({"https://ci"}),
                   GITLAB_TOKEN : OptionalOf({"env-token"}),
                   GL_TOKEN : OptionalOf({"gl-token"}),
                   CI_JOB_TOKEN : OptionalOf({"job-token"}),
                   CI_API_TOKEN : OptionalOf({"api-token"}),
                   GITLAB_ACCESS_TOKEN : OptionalOf({"access-token"})],
          glab \in {[url |-> None, token |-> None],
                    [url |-> Some("https://glab"), token |-> None],
                    [url |-> Some("https://glab"), token |-> Some("glab-token")]} :
          conf = [opts |-> opts, env |-> env, glab |-> glab,
                  base_url |-> None, token |-> None, repo_path |-> None,
                  debug |-> FALSE, startup |-> Unconfigured, pc |-> "start"]
    /\ up = <<>>
    /\ pg = NoPaginate
    /\ reqs = <<>>
    /\ now = Window
    /\ prev = NoCall
    /\ wire = <<>>
    /\ mr = NoMr
    /\ tree = NoTree
    /\ grp = NoCall
    /\ mem = NoCall
    /\ sched = NoCall
    /\ cmd = NoCall

\* cli.py:38-55: startup.
CliStartup ==
    /\ conf.pc = "start"
    /\ LET settings == CliBody(conf.opts, conf.env, conf.glab) IN
       conf' = [WithSettings(conf, settings) EXCEPT !.startup = settings, !.pc = "ready"]
    /\ UNCHANGED <<up, pg, reqs, mr, tree, grp, mem, sched, cmd, now, prev, wire>>

\* client.py:235-245: a command's API request: the configuration is read
\* from the environment once more if no base URL is set; the request
\* carries the base URL and the token.
CliApiRequest ==
    /\ conf.pc \in {"ready", "writing"}
    /\ LET settings == IF ~TruthyStr(conf.base_url)
                       THEN ConfigureFromEnv(SettingsOf(conf), conf.env, conf.glab)
                       ELSE SettingsOf(conf) IN
       /\ conf' = [WithSettings(conf, settings) EXCEPT !.pc = "done"]
       /\ reqs' = Append(reqs, [base_url |-> settings.base_url, token |-> settings.token])
    /\ UNCHANGED <<up, pg, mr, tree, grp, mem, sched, cmd, now, prev, wire>>

\* commands/pipeline_schedules.py:177-185 and 247-255: pipeline-schedules
\* create or update: --project is stored as the repository path; with no
\* project at all the command ends with a ClickException.
CliScheduleWrite ==
    /\ conf.pc = "ready"
    /\ \E project \in OptionalOf({"grp/proj"}) :
          LET settings == IF TruthyStr(project)
                          THEN SetRepoPath(SettingsOf(conf), project)
                          ELSE SettingsOf(conf) IN
          conf' = [WithSettings(conf, settings) EXCEPT
                      !.pc = IF TruthyStr(settings.repo_path) THEN "writing" ELSE "done"]
    /\ UNCHANGED <<up, pg, reqs, mr, tree, grp, mem, sched, cmd, now, prev, wire>>

NextCli == CliStartup \/ CliApiRequest \/ CliScheduleWrite

SpecCli == InitCli /\ [][NextCli]_vars

(***************************************************************************)
(* Calls with any limit the CLI's --limit can hand over, 0 included.       *)
(***************************************************************************)
AnyLimits == {None} \cup {Some(l) : l \in 0..MaxLimit}

InitAnyLimit ==
    /\ \/ /\ up \in [items : Feeds({[i \in 1..n |-> i] : n \in 0..MaxItems},
                                   0..MaxFaultPage)]
          /\ pg \in {PaginateArgs("items", pp, l, o) :
                        pp \in 1..MaxPerPage, l \in AnyLimits, o \in BOOLEAN}
          /\ mr = NoMr
       \/ /\ \E project_path \in ProjectPaths,
                pipeline_status \in {None, Some("success")},
                limit \in {None, Some(0), Some(1)}, mrFeed \in MrFeeds :
                /\ mr = MrArgs(project_path, pipeline_status, limit)
                /\ \E pipelineFeed \in
                       IF TruthyStr(project_path) /\ TruthyStr(pipeline_status)
                          /\ mrFeed.data # <<>>
                       THEN DatedFeeds ELSE {CleanFeed(<<>>)} :
                       up = MrUpstream(mrFeed, pipelineFeed)
          /\ pg = NoPaginate
    /\ reqs = <<>>
    /\ now = Window
    /\ prev = NoCall
    /\ wire = <<>>
    /\ conf = NoCall
    /\ tree = NoTree
    /\ grp = NoCall
    /\ mem = NoCall
    /\ sched = NoCall
    /\ cmd = NoCall

NextAnyLimit == NextPaginate \/ NextMr

SpecAnyLimit == InitAnyLimit /\ [][NextAnyLimit]_vars

(***************************************************************************)
(* The whole program: one call of any of the modelled operations.          *)
(***************************************************************************)
Init == InitPaginate \/ InitMr \/ InitTree

Next == NextPaginate \/ NextMr \/ NextTree

Spec == Init /\ [][Next]_vars

(***************************************************************************)
(* Properties of a bare paginate call.                                     *)
(***************************************************************************)
\* The call is a bare, non-optional paginate that has returned, against a
\* feed that served every page as a list.
BareReturned ==
    /\ mr.pc = "off"
    /\ pg.pc = "returned"
    /\ ~pg.optional
    /\ up.items.objAt = 0
    /\ up.items.failAt = 0

\* C1: with no limit, paginate over a stable finite collection served in
\* pages of per_page items returns exactly the upstream items, each once, in
\* upstream order.
C1_NoLimitReturnsAll ==
    (BareReturned /\ pg.limit = None) => pg.items = up.items.data

\* C1 witness: two full pages and a short one were fetched and joined.
C1_Witness ==
    /\ BareReturned
    /\ pg.limit = None
    /\ pg.per_page = 2
    /\ Len(up.items.data) = 5
    /\ Len(reqs) = 3
    /\ pg.items = <<1, 2, 3, 4, 5>>

\* C2: with a limit L >= 1, paginate returns exactly the first min(L, N)
\* upstream items in upstream order.
C2_LimitReturnsPrefix ==
    (BareReturned /\ pg.limit # None /\ pg.limit[1] >= 1) =>
        pg.items = Slice(up.items.data, 1, Min(pg.limit[1], Len(up.items.data)))

\* C2 witness: the count passed the limit (2 + 2 > 3) and was cut to it.
C2_Witness ==
    /\ BareReturned
    /\ pg.limit = Some(3)
    /\ pg.per_page = 2
    /\ Len(up.items.data) = 5
    /\ Len(reqs) = 2
    /\ pg.items = <<1, 2, 3>>

\* C3: every paginate call over a finite collection ends (returns, returns
\* None or raises), and an iteration that does not end the loop increases
\* the page number by one.
C3_Terminates ==
    /\ <>(pg.pc \in {"returned", "raised", "none"})
    /\ [][(pg.pc = "loop" /\ pg'.pc = "loop") => pg'.page = pg.page + 1]_vars

\* C3 witness: the collection is an exact multiple of per_page and the
\* request after the last full page returned an empty page.
C3_Witness ==
    /\ BareReturned
    /\ pg.limit = None
    /\ pg.per_page = 2
    /\ Len(up.items.data) = 4
    /\ Len(reqs) = 3
    /\ pg.page = 3

(***************************************************************************)
(* Properties of get_merge_requests and the cross-reference filter.        *)
(***************************************************************************)
\* The merge-requests feed the call reads.
MrFeed == up[MrEndpoint(mr.project_path)]

\* The frame pg is that of a paginate call that has ended after the
\* upstream answered its first request with a JSON object.
EndedOnObject ==
    /\ pg.pc \in {"returned", "raised", "none"}
    /\ up[pg.endpoint].objAt = 1
    /\ up[pg.endpoint].failAt # 1

\* C4: when the first response is a JSON object the optional variant yields
\* None and paginate yields an empty list, while an empty first page yields
\* an empty list from both; get_merge_requests maps None to an empty result
\* without calling the pipeline-status filter.
C4_AbsentVersusEmpty ==
    /\ EndedOnObject =>
          IF pg.optional THEN pg.pc = "none"
          ELSE pg.pc = "returned" /\ pg.items = <<>>
    /\ (pg.pc = "none") => (pg.optional /\ up[pg.endpoint].objAt = 1)
    /\ (mr.pc = "returned" /\ MrFeed.objAt = 1) =>
          /\ mr.result = <<>>
          /\ ~mr.filter_called
          /\ \A i \in 1..Len(reqs) : reqs[i].endpoint # "projects/pipelines"

\* C4 witness: get_merge_requests with a pipeline status has returned after
\* its project's endpoint answered with an object.
C4_Witness ==
    /\ mr.pc = "returned"
    /\ MrFeed.objAt = 1
    /\ TruthyStr(mr.pipeline_status)
    /\ TruthyStr(mr.project_path)
    /\ pg.optional
    /\ pg.pc = "none"
    /\ mr.result = <<>>

\* The filter has fetched the pipelines and run its try block.
FilterRan ==
    /\ mr.pc = "returned"
    /\ mr.filter_called
    /\ pg.endpoint = "projects/pipelines"

\* The pipelines the filter fetched, in delivered order.
Fetched == ParsePipelines(pg.items)

\* The positions of the fetched pipelines whose ref is that of iid k.
Naming(k) == {i \in 1..Len(Fetched) : Fetched[i].ref = Some(MrRef(k))}

\* The least element of a non-empty set of numbers.
Least(S) == CHOOSE i \in S : \A j \in S : i <= j

\* The index built from the first n fetched pipelines.
IndexAfter(n) == BuildIndex(SubSeq(Fetched, 1, n)).index

\* C5: the index is first-write-wins: the status recorded for an iid is
\* that of the first fetched pipeline whose ref names the iid, and an entry
\* made by a prefix of the pipelines is never changed by a later pipeline.
C5_FirstWriteWins ==
    FilterRan =>
        /\ \A k \in DOMAIN mr.index :
              Naming(k) # {} /\ mr.index[k] = Fetched[Least(Naming(k))].status
        /\ \A n \in 1..Len(Fetched) : \A k \in DOMAIN IndexAfter(n - 1) :
              k \in DOMAIN IndexAfter(n) /\ IndexAfter(n)[k] = IndexAfter(n - 1)[k]

\* C5 witness: pipelines [running, success] of one iid index it as running.
C5_Witness ==
    /\ FilterRan
    /\ Len(Fetched) = 2
    /\ Fetched[1] = [ref |-> Some(MrRef(1)), status |-> "running"]
    /\ Fetched[2] = [ref |-> Some(MrRef(1)), status |-> "success"]
    /\ mr.index[1] = "running"

\* C6: a merge request whose iid has no index entry, or that no fetched
\* pipeline names, is never in the filter's result.
C6_UnknownExcluded ==
    (mr.pc = "returned" /\ mr.filter_called) =>
        \A i \in 1..Len(mr.filtered) :
            /\ mr.filtered[i].iid \in DOMAIN mr.index
            /\ Naming(mr.filtered[i].iid) # {}

\* C6 witness: of two merge requests only the one with a pipeline is kept.
C6_Witness ==
    /\ FilterRan
    /\ ~mr.caught
    /\ mr.mrs = <<[iid |-> 2], [iid |-> 1]>>
    /\ DOMAIN mr.index = {1}
    /\ mr.filtered = <<[iid |-> 1]>>

\* The merge request m matches: the first fetched pipeline naming its iid
\* has exactly the desired status.
Matches(m) ==
    /\ Naming(m.iid) # {}
    /\ Fetched[Least(Naming(m.iid))].status = mr.pipeline_status[1]

\* sub is an order-preserving subsequence of seq (of distinct elements).
IsSubsequence(sub, seq) ==
    /\ \A i \in 1..Len(sub) : \E j \in 1..Len(seq) : seq[j] = sub[i]
    /\ \A i, j \in 1..Len(sub) : i < j =>
          \E a, b \in 1..Len(seq) : a < b /\ seq[a] = sub[i] /\ seq[b] = sub[j]

\* C7: when no error occurs the filter's result is the order-preserving
\* subsequence of the input merge requests that match, case-sensitively.
C7_ExactSubsequence ==
    (FilterRan /\ ~mr.caught) =>
        /\ IsSubsequence(mr.filtered, mr.mrs)
        /\ \A i \in 1..Len(mr.filtered) : Matches(mr.filtered[i])
        /\ \A j \in 1..Len(mr.mrs) :
              Matches(mr.mrs[j]) => \E i \in 1..Len(mr.filtered) : mr.filtered[i] = mr.mrs[j]

\* C7 witness: both merge requests match and keep their input order, 2
\* before 1.
C7_Witness ==
    /\ FilterRan
    /\ ~mr.caught
    /\ mr.pipeline_status = Some("success")
    /\ mr.mrs = <<[iid |-> 2], [iid |-> 1]>>
    /\ mr.filtered = <<[iid |-> 2], [iid |-> 1]>>

\* An exception was raised inside the filter: the pipeline fetch failed, or
\* a fetched pipeline has no ref.
FilterFailed ==
    /\ FilterRan
    /\ \/ pg.pc = "raised"
       \/ \E i \in 1..Len(Fetched) : Fetched[i].ref = None

\* C8: an exception inside the filter makes it return an empty list; it is
\* not propagated and the unfiltered input is not returned.
C8_ErrorGivesEmpty ==
    /\ mr.filter_called => mr.pc # "raised"
    /\ FilterFailed => (mr.filtered = <<>> /\ mr.result = <<>> /\ mr.caught)

\* C8 witness: the pipeline of merge request 1 succeeded, and the next
\* pipeline record has no ref.
C8_Witness ==
    /\ FilterFailed
    /\ mr.pipeline_status = Some("success")
    /\ mr.mrs = <<[iid |-> 1]>>
    /\ Fetched = <<[ref |-> Some(MrRef(1)), status |-> "success"],
                   [ref |-> None, status |-> "success"]>>
    /\ mr.filtered = <<>>

\* C9: with a pipeline status the merge requests are fetched without a
\* limit, all of them are filtered, and the result is the first `limit` of
\* the filtered list; without one the limit is passed to the fetch.
C9_LimitAfterFilter ==
    /\ (mr.pc = "fetch_mrs") =>
          pg.limit = IF TruthyStr(mr.pipeline_status) THEN None ELSE mr.limit
    /\ (mr.pc \in {"fetch_pipelines", "returned"} /\ MrFeed.objAt = 0
        /\ TruthyStr(mr.pipeline_status)) =>
          mr.mrs = ParseMergeRequests(MrFeed.data)
    /\ (mr.pc = "returned" /\ TruthyStr(mr.pipeline_status)) =>
          mr.result = IF TruthyInt(mr.limit)
                      THEN Slice(mr.filtered, 1, Min(mr.limit[1], Len(mr.filtered)))
                      ELSE mr.filtered
    /\ (mr.pc = "returned" /\ ~TruthyStr(mr.pipeline_status) /\ MrFeed.objAt = 0
        /\ TruthyInt(mr.limit)) =>
          mr.result = Slice(ParseMergeRequests(MrFeed.data), 1,
                            Min(mr.limit[1], Len(MrFeed.data)))

\* C9 witness: with limit 1 the first merge request does not match and the
\* second, beyond the limit, is the result.
C9_Witness ==
    /\ FilterRan
    /\ mr.limit = Some(1)
    /\ mr.mrs = <<[iid |-> 1], [iid |-> 2]>>
    /\ mr.filtered = <<[iid |-> 2]>>
    /\ mr.result = <<[iid |-> 2]>>

(***************************************************************************)
(* Properties of build_group_tree.                                         *)
(***************************************************************************)
\* The second pass has run.
TreeBuilt == tree.pc \in {"attached", "returned"}

\* The ids of the flat input.
InputIds == {tree.groups_data[i].id : i \in 1..Len(tree.groups_data)}

\* The group dictionary g names a parent that is in the flat input.
ParentPresent(g) ==
    g.parent_id # None /\ g.parent_id[1] \in InputIds

\* How often id occurs in the list s.
Count(s, id) == Cardinality({i \in 1..Len(s) : s[i] = id})

\* C10: each group is a child of its parent when the parent id is in the
\* flat input, and a root otherwise; a group whose parent is absent is a
\* root, not dropped.
C10_OrphanIsRoot ==
    TreeBuilt =>
        \A i \in 1..Len(tree.groups_data) :
            LET g == tree.groups_data[i] IN
            IF ParentPresent(g)
            THEN /\ Count(tree.subgroups[g.parent_id[1]], g.id) = 1
                 /\ Count(tree.root_groups, g.id) = 0
            ELSE /\ Count(tree.root_groups, g.id) = 1
                 /\ \A p \in InputIds : Count(tree.subgroups[p], g.id) = 0

\* C10 witness: ids 1 (no parent), 2 (parent 1), 3 (parent absent) give the
\* roots 1 and 3, with 2 the only child of 1.
C10_Witness ==
    /\ tree.pc = "returned"
    /\ tree.groups_data = <<[id |-> 1, parent_id |-> None],
                            [id |-> 2, parent_id |-> Some(1)],
                            [id |-> 3, parent_id |-> Some(MaxGroups + 1)]>>
    /\ tree.root_groups = <<1, 3>>
    /\ tree.subgroups[1] = <<2>>
    /\ tree.subgroups[2] = <<>>
    /\ tree.subgroups[3] = <<>>

(***************************************************************************)
(* get_group.                                                              *)
(***************************************************************************)
\* The positions of the candidates whose full_path or path is the reference,
\* ignoring case.
PathMatches ==
    {i \in 1..Len(grp.candidates) :
        \/ LowerStr(GetStr(grp.candidates[i].full_path)) = LowerStr(grp.ref)
        \/ LowerStr(GetStr(grp.candidates[i].path)) = LowerStr(grp.ref)}

\* The positions of the candidates whose name is the reference, ignoring case.
NameMatches ==
    {i \in 1..Len(grp.candidates) :
        LowerStr(GetStr(grp.candidates[i].name)) = LowerStr(grp.ref)}

\* The positions of the upstream's groups whose full_path is the reference.
FullPathHolders ==
    {i \in 1..Len(up["groups"].data) : up["groups"].data[i].full_path = Some(grp.ref)}

\* C11: get_group returns a group only when the reference resolves uniquely.
\* After the search fallback, several path matches give None, one path match
\* is returned whatever the names, and without a path match one name match
\* is returned and several give None; a reference that is a group's
\* full_path and that the direct lookup finds gives that group.
C11_UniqueResolution ==
    grp.pc = "returned" =>
        /\ grp.searched =>
              /\ Cardinality(PathMatches) > 1 => grp.result = None
              /\ \A i \in PathMatches :
                    PathMatches = {i} => grp.result = Some(grp.candidates[i])
              /\ PathMatches = {} =>
                    /\ Cardinality(NameMatches) > 1 => grp.result = None
                    /\ \A i \in NameMatches :
                          NameMatches = {i} => grp.result = Some(grp.candidates[i])
        /\ \A i \in FullPathHolders :
              grp.result = Some(up["groups"].data[i]) /\ ~grp.searched

\* The search has run and found one path match among candidates of which
\* two carry the reference as their name; the path match is returned.
C11_Witness ==
    /\ grp.pc = "returned"
    /\ grp.searched
    /\ Cardinality(PathMatches) = 1
    /\ Cardinality(NameMatches) > 1
    /\ grp.result # None

(***************************************************************************)
(* get_group_members.                                                      *)
(***************************************************************************)
\* The members the upstream holds for the group.
Delivered == up["groups/members"].data

\* The positions of the delivered members that the call keeps: all of them,
\* or with active_only those whose account state is "active" (a member
\* delivered without a state counts as active).
KeptMembers ==
    {i \in 1..Len(Delivered) :
        mem.active_only => Delivered[i].state \in {None, Some("active")}}

\* The position in the result of the kept member at position i.
RankOf(i) == Cardinality({k \in KeptMembers : k <= i})

\* C12: get_group_members with active_only returns exactly the members whose
\* account state is "active", in upstream order, whatever their
\* membership_state; without active_only it returns every member; and each
\* record carries state and membership_state as delivered.
C12_ActiveOnlyByAccountState ==
    mem.pc = "returned" =>
        /\ Len(mem.members) = Cardinality(KeptMembers)
        /\ \A i \in KeptMembers :
              /\ mem.members[RankOf(i)].id = Delivered[i].id
              /\ Delivered[i].state # None =>
                    Some(mem.members[RankOf(i)].state) = Delivered[i].state
              /\ Delivered[i].membership_state # None =>
                    Some(mem.members[RankOf(i)].membership_state)
                        = Delivered[i].membership_state

\* With active_only, an active account whose membership is awaiting is
\* returned and a blocked account whose membership is active is not.
C12_Witness ==
    /\ mem.pc = "returned"
    /\ mem.active_only
    /\ \E i \in KeptMembers : Delivered[i].membership_state = Some("awaiting")
    /\ \E i \in 1..Len(Delivered) :
          /\ i \notin KeptMembers
          /\ Delivered[i].membership_state = Some("active")
    /\ Len(mem.members) = 1

(***************************************************************************)
(* The schedule listing.                                                   *)
(***************************************************************************)
\* The request at position k of the log went to a REST endpoint.
IsRestRequest(k) == reqs[k].endpoint # "graphql"

\* C13: the enriched listing, get_schedules with include_last_pipeline,
\* sends the GraphQL query first and issues REST requests only after that
\* attempt has failed.
C13_GraphqlBeforeRest ==
    (sched.entry = "get_schedules" /\ sched.include_last_pipeline) =>
        \A k \in 1..Len(reqs) :
            IsRestRequest(k) =>
                /\ k > 1
                /\ ~IsRestRequest(1)
                /\ sched.graphql = Some("failed")

\* The last pipeline the REST strategy finds for a schedule: the pipeline
\* of greatest id among the first SchedulePipelinesLimit the upstream
\* lists, None when there is none or the fetch fails.
RestLastPipeline(schedule_id) ==
    LET f == PaginateRun(PaginateEnter(PaginateArgs(SchedulePipelinesEndpoint(schedule_id),
                                                    DefaultPerPage,
                                                    Some(SchedulePipelinesLimit), FALSE)),
                         up[SchedulePipelinesEndpoint(schedule_id)]) IN
    IF f.pc = "raised" \/ f.items = <<>> THEN None
    ELSE LET newest == CHOOSE k \in 1..Len(f.items) :
                           \A j \in 1..Len(f.items) : f.items[j].id <= f.items[k].id IN
         Some([id |-> f.items[newest].id, status |-> f.items[newest].status])

\* What the REST strategy gives for the call's scope and limit.
RestOutcome ==
    LET f == PaginateRun(PaginateEnter(PaginateArgs(SchedulesEndpoint, DefaultPerPage,
                                                    sched.limit, FALSE)),
                         ScopedFeed(up[SchedulesEndpoint], sched.scope)) IN
    IF f.pc = "raised" THEN [raised |-> TRUE, schedules |-> <<>>]
    ELSE [raised |-> FALSE,
          schedules |-> [k \in 1..Len(f.items) |->
                            [id |-> f.items[k].id, active |-> f.items[k].active,
                             last_pipeline |-> RestLastPipeline(f.items[k].id)]]]

\* The GraphQL answer is a failure: the transport fails, the status is an
\* error, the body has an errors array or a null project, or a node that is
\* to be parsed cannot be.
GraphqlFails ==
    \/ up["graphql"].outcome \in {"transport", "http", "errors", "null_project"}
    \/ /\ up["graphql"].gid \/ ~up["graphql"].importable
       /\ \E k \in 1..Len(up[SchedulesEndpoint].data) :
             /\ TruthyInt(sched.limit) => k <= sched.limit[1]
             /\ TruthyStr(sched.scope) =>
                   up[SchedulesEndpoint].data[k].active = (sched.scope[1] = "active")

\* C14: whenever the GraphQL attempt fails, for whatever reason,
\* _get_schedules_with_graphql propagates no GraphQL failure and ends as the
\* REST strategy does for the same scope and limit: with its list, or with
\* its exception.
C14_FallbackGivesRestResult ==
    (sched.entry = "_get_schedules_with_graphql" /\ sched.pc # "idle") =>
        /\ GraphqlFails => sched.graphql = Some("failed")
        /\ sched.graphql = Some("failed") =>
              /\ sched.pc = "raised" => RestOutcome.raised
              /\ sched.pc = "returned" =>
                    ~RestOutcome.raised /\ sched.result = RestOutcome.schedules

\* The query was answered with an errors array and the call returned the
\* REST strategy's schedules, one of them with its last pipeline.
C14_Witness ==
    /\ sched.entry = "_get_schedules_with_graphql"
    /\ up["graphql"].outcome = "errors"
    /\ sched.pc = "returned"
    /\ \E k \in 1..Len(sched.result) : sched.result[k].last_pipeline # None

\* C17: a transport or API error raised during an API method that is not a
\* safe variant propagates: the schedule listing over REST does not return
\* normally once one of its requests has raised.
C17_ErrorsPropagate ==
    (sched.entry = "get_schedules" /\ sched.pc = "returned") =>
        \A k \in 1..Len(reqs) : up[reqs[k].endpoint].failAt # reqs[k].page

(***************************************************************************)
(* Exit behaviour and single-resource lookups.                             *)
(***************************************************************************)
\* The command performed a trigger, create or update that failed: the
\* upstream did not answer it with the created object.
ActionFailed ==
    \/ cmd.command \in ActionCommands /\ up.action[1] # "object"
    \/ /\ cmd.command = "mergerequests list"
       /\ \E k \in 1..cmd.i :
             /\ \A j \in 1..k : up.lookup[j] \notin {"not_found", "http_error", "transport"}
             /\ \A j \in 1..(k - 1) : up.action[j] \notin {"not_found", "http_error",
                                                          "transport"}
             /\ up.lookup[k] = "object"
             /\ up.action[k] # "object"

\* C15: a failed trigger, create or update makes the process exit nonzero
\* in every command that performs one, and a show command whose lookup finds
\* nothing prints a message and exits zero.
C15_ExitCodes ==
    cmd.pc = "exited" =>
        /\ ActionFailed => cmd.exit_code # Some(0)
        /\ (cmd.command \in ShowCommands /\ up.lookup[1] = "not_found") =>
              cmd.exit_code = Some(0) /\ cmd.not_found

\* C16: get_project and get_project_by_id return None, and do not raise,
\* when the upstream answers HTTP 404.
C16_NotFoundGivesNone ==
    \A k \in 1..Len(up.lookup) :
        (/\ cmd.command \in {"projects show", "mergerequests list"}
         /\ cmd.pc = "exited"
         /\ cmd.i \in {0, k}
         /\ up.lookup[k] = "not_found") => cmd.looked_up = "none"

(***************************************************************************)
(* Repeated calls.                                                         *)
(***************************************************************************)
\* Both calls have ended.
BothEnded ==
    /\ prev.pc = "first"
    /\ \/ mr.pc \in {"returned", "raised"}
       \/ mr.pc = "off" /\ pg.pc \in {"returned", "raised", "none"}

\* The second call ended as the first did, with the same result.
SameOutcome ==
    /\ prev.ended = (IF mr.pc = "off" THEN pg.pc ELSE mr.pc)
    /\ prev.result = (IF mr.pc = "off" THEN pg.items ELSE mr.result)

\* C18, as claimed: two calls of the same read-only fetch with identical
\* parameters against an unchanged upstream return identical results in
\* identical order.
C18_SameResultTwice == BothEnded => SameOutcome

\* The call reads the clock: it is get_merge_requests with a pipeline_status.
ReadsClock == mr.pc # "off" /\ TruthyStr(mr.pipeline_status)

\* No pipeline of the project was created between the days the two calls
\* take for thirty days ago.
NoPipelineBetween ==
    \A k \in 1..Len(up["projects/pipelines"].data) :
        LET created_at == up["projects/pipelines"].data[k].created_at IN
        ~(prev.now - Window < created_at /\ created_at <= now - Window)

\* C18, amended: the two calls give identical results in identical order,
\* provided that, for get_merge_requests with a pipeline_status, no pipeline
\* was created between the two calls' thirty-days-ago days; the other
\* fetches do not read the clock.
C18_SameResultUnlessWindowMoved ==
    (BothEnded /\ (ReadsClock => NoPipelineBetween)) => SameOutcome

\* The filter ran twice, a day apart, no pipeline left the window, and both
\* calls returned the same merge request.
C18_Witness ==
    /\ BothEnded
    /\ ReadsClock
    /\ now # prev.now
    /\ NoPipelineBetween
    /\ mr.pc = "returned"
    /\ mr.result # <<>>
    /\ SameOutcome

(***************************************************************************)
(* An upstream that fills every page.                                      *)
(***************************************************************************)
\* The call has a limit of at least 1.
Limited == TruthyInt(pg.limit)

\* C19: against an upstream that returns exactly per_page items for every
\* page number, a call without a limit never returns and its page number
\* passes every page the model allows, each request having been answered
\* with a full page; a call with a limit L >= 1 returns.
C19_EndlessWithoutLimit ==
    /\ [](~Limited => /\ pg.pc \in {"idle", "loop"}
                      /\ Len(pg.items) = Len(reqs) * pg.per_page)
    /\ (~Limited) ~> (pg.page > MaxPage)
    /\ Limited ~> (pg.pc = "returned")

\* A call without a limit has requested every page the model allows, got a
\* full page each time, and is still at the head of the loop.
C19_Witness ==
    /\ ~Limited
    /\ pg.pc = "loop"
    /\ pg.page = MaxPage + 1
    /\ Len(reqs) = MaxPage
    /\ Len(pg.items) = MaxPage * pg.per_page

(***************************************************************************)
(* Requests of a call with a limit.                                        *)
(***************************************************************************)
\* The upstream holds at least limit items and answers every request with
\* its page.
HoldsLimit ==
    /\ Len(up.items.data) >= pg.limit[1]
    /\ up.items.objAt = 0
    /\ up.items.failAt = 0

\* C20: with a limit L >= 1 every request carries per_page = min(L, page
\* size), per_page does not change once the loop is entered, and no request
\* is issued once the accumulated count has reached L; so, against an
\* upstream of at least L items, a limit above one page size and up to two
\* (150 with page size 100) takes exactly 2 requests and a limit up to the
\* page size takes exactly 1.
C20_LimitBoundsRequests ==
    /\ [](Limited =>
            \A k \in 1..Len(reqs) :
                reqs[k].per_page = Min(pg.limit[1], pg.per_page_arg))
    /\ [][(Limited /\ pg.pc = "loop") => pg'.per_page = pg.per_page]_vars
    /\ [][(Limited /\ Len(pg.items) >= pg.limit[1]) => reqs' = reqs]_vars
    /\ []((Limited /\ HoldsLimit /\ pg.pc = "returned"
           /\ pg.per_page_arg < pg.limit[1]
           /\ pg.limit[1] <= 2 * pg.per_page_arg) => Len(reqs) = 2)
    /\ []((Limited /\ HoldsLimit /\ pg.pc = "returned"
           /\ pg.limit[1] <= pg.per_page_arg) => Len(reqs) = 1)

\* The call with the default page size and limit 150 against the synthetic
\* endpoint returned the first 150 items after two requests of 100.
C20_Witness ==
    /\ Len(up.items.data) = SyntheticItems
    /\ pg.limit = Some(SyntheticLimit)
    /\ pg.pc = "returned"
    /\ Len(reqs) = 2
    /\ reqs[2].per_page = DefaultPerPage
    /\ Len(pg.items) = SyntheticLimit

(***************************************************************************)
(* The order of get_group's strategies.                                    *)
(***************************************************************************)
\* Request k of get_group is a page of the search (the direct lookups are
\* logged with page 0).
IsSearchRequest(k) == reqs[k].page >= 1

\* C21: get_group's first request is the direct lookup, by id for a numeric
\* reference and by URL-encoded full path otherwise; a group object from
\* the direct lookup is the result and no other request is made; the search
\* is requested only after the lookup by path has returned no group object;
\* an empty or whitespace-only reference returns None without any request.
C21_StrategyOrder ==
    /\ reqs # <<>> =>
          /\ ~IsSearchRequest(1)
          /\ reqs[1].endpoint =
                <<"groups", IF IsDigit(grp.ref) THEN grp.ref ELSE Quote(grp.ref)>>
          /\ \A k \in 2..Len(reqs) : IsSearchRequest(k)
    /\ Len(reqs) >= 2 => grp.direct = None /\ ~IsDigit(grp.ref)
    /\ grp.direct # None =>
          grp.pc = "returned" /\ grp.result = grp.direct /\ Len(reqs) = 1
    /\ (grp.pc # "idle" /\ Strip(GetStr(grp.group_ref)) = <<>>) =>
          grp.pc = "returned" /\ grp.result = None /\ reqs = <<>>

\* The lookup by path returned no group object, the search was requested
\* after it and resolved a group.
C21_Witness ==
    /\ grp.pc = "returned"
    /\ Len(reqs) >= 2
    /\ IsSearchRequest(2)
    /\ grp.direct = None
    /\ grp.result # None

(***************************************************************************)
(* The last pipeline of the REST strategy.                                 *)
(***************************************************************************)
\* The pipelines get_schedule_pipelines returns at the end of its paginate.
SortedPipelines == SchedulePipelines(pg).pipelines

HasMrRef(n, k) == Fetched[n].ref = Some(MrRef(k))

\* C23: a pipeline makes an index entry for iid k if and only if its ref is
\* exactly refs/merge-requests/k/head: the iids indexed are those some
\* fetched pipeline names in that form, and a pipeline with any other ref
\* leaves the index as the pipelines before it made it.
C23_OnlyExactRefsIndexed ==
    FilterRan =>
        /\ \A k \in Iids : k \in DOMAIN mr.index <=> Naming(k) # {}
        /\ \A n \in 1..Len(Fetched) :
              (\A k \in Iids : ~HasMrRef(n, k)) => IndexAfter(n) = IndexAfter(n - 1)

(***************************************************************************)
(* Requests on the wire.                                                   *)
(***************************************************************************)
\* C24: at most one request is unanswered at any moment; the requests of a
\* paginate call are for the pages 1, 2, 3, ... in that order, none skipped
\* or repeated; and the request of page N+1 is sent only when no request is
\* unanswered and the N pages before it are in the result.
C24_OneRequestAtATime ==
    /\ [](Len(wire) <= 1)
    /\ [](\A k \in 1..Len(reqs) : reqs[k].page = k)
    /\ [][reqs' # reqs =>
            /\ wire = <<>>
            /\ pg.items = PyPrefix(up.items.data, Len(reqs) * pg.per_page)
            /\ Len(pg.items) = Len(reqs) * pg.per_page]_vars

\* The request of page 2 is on the wire, page 1 being in the result.
C24_Witness ==
    /\ pg.pc = "wait"
    /\ Len(wire) = 1
    /\ wire[1].page = 2
    /\ Len(pg.items) = pg.per_page

(***************************************************************************)
(* The process-wide configuration.                                         *)
(***************************************************************************)
\* C25: the configuration (base URL, token, debug flag, repository path)
\* is written during startup only: at every later moment it is as startup
\* left it.
C25_ConfigurationFrozenAfterStartup ==
    conf.pc \in {"ready", "writing", "done"} => SettingsOf(conf) = conf.startup

\* The base URL and the token startup should leave: the command line's,
\* else the environment's, else the glab configuration's (the URL without
\* its trailing slash).
ExpectedBaseUrl ==
    LET env_url == OrElse(conf.env.GITLAB_URL, conf.env.CI_SERVER_URL)
        url == OrElse(conf.opts.gitlab_url,
                      OrElse(env_url, OrElse(conf.glab.url, Some("https://gitlab.com")))) IN
    Some(RStripSlash(url[1]))

ExpectedToken ==
    LET env_token == OrElse(conf.env.GITLAB_TOKEN,
                     OrElse(conf.env.GL_TOKEN,
                     OrElse(conf.env.CI_JOB_TOKEN,
                     OrElse(conf.env.CI_API_TOKEN, conf.env.GITLAB_ACCESS_TOKEN)))) IN
    OrElse(conf.opts.token, OrElse(env_token, conf.glab.token))

\* C26: after startup the base URL and the token, and those of every
\* request, are the ones given with --gitlab-url and --token; a setting not
\* given explicitly comes from the environment, else from the glab
\* configuration.
C26_ExplicitSettingsWin ==
    conf.pc \in {"ready", "writing", "done"} =>
        /\ conf.base_url = ExpectedBaseUrl
        /\ conf.token = ExpectedToken
        /\ \A k \in 1..Len(reqs) :
              reqs[k].base_url = ExpectedBaseUrl /\ reqs[k].token = ExpectedToken

(***************************************************************************)
(* build_group_tree keeps every group.                                     *)
(***************************************************************************)
\* The groups found within n steps down from the groups of S.
RECURSIVE ReachableWithin(_, _)
ReachableWithin(S, n) ==
    IF n = 0 THEN S
    ELSE ReachableWithin(S \cup UNION {Range(tree.subgroups[p]) : p \in S}, n - 1)

\* The groups reachable from the returned roots.
ReachableFromRoots == ReachableWithin(Range(tree.root_groups), Len(tree.keys))

\* C27: for a flat input of unique ids, whatever the parent ids, each group
\* is a returned root or a child of exactly one group, never both, and the
\* groups reachable from the returned roots are exactly the input's.
C27_NoGroupDropped ==
    TreeBuilt =>
        /\ \A id \in InputIds :
              Count(tree.root_groups, id)
                 + Cardinality({p \in InputIds : Count(tree.subgroups[p], id) = 1}) = 1
        /\ \A id \in InputIds, p \in InputIds : Count(tree.subgroups[p], id) <= 1
        /\ ReachableFromRoots = InputIds

(***************************************************************************)
(* The limit as an upper bound.                                            *)
(***************************************************************************)
\* C28: whatever integer limit is passed, 0 included, paginate and
\* get_merge_requests return at most limit items: a limit that is not None
\* is never taken for no limit.
C28_LimitIsUpperBound ==
    /\ (mr.pc = "off" /\ pg.pc = "returned" /\ pg.limit # None) =>
          Len(pg.items) <= pg.limit[1]
    /\ (mr.pc = "returned" /\ mr.limit # None) => Len(mr.result) <= mr.limit[1]

(***************************************************************************)
(* The pipeline-status filter without a project path.                      *)
(***************************************************************************)
\* get_merge_requests was called with a pipeline_status and no project path.
FilterWithoutProject ==
    mr.pc # "off" /\ TruthyStr(mr.pipeline_status) /\ ~TruthyStr(mr.project_path)

\* C29: with a pipeline_status and no project path get_merge_requests
\* returns the empty list whatever the upstream holds; every request it
\* makes is a page of the merge requests, fetched with no limit whatever
\* limit was passed, and none is a pipeline request; and a filter given an
\* empty candidate list makes no pipeline request either.
C29_NoProjectGivesEmpty ==
    /\ FilterWithoutProject =>
          /\ mr.pc = "returned" => mr.result = <<>>
          /\ mr.pc # "fetch_pipelines"
          /\ \A k \in 1..Len(reqs) :
                reqs[k].endpoint = "merge_requests" /\ reqs[k].per_page = DefaultPerPage
          /\ (mr.pc = "returned" /\ pg.pc = "returned") =>
                pg.limit = None /\ pg.items = up["merge_requests"].data
    /\ (mr.pc = "returned" /\ mr.filter_called /\ mr.mrs = <<>>) =>
          /\ mr.result = <<>>
          /\ \A k \in 1..Len(reqs) : reqs[k].endpoint # "projects/pipelines"

\* Two merge requests were fetched although the limit is 1, the filter was
\* called without a project path, and the result is empty.
C29_Witness ==
    /\ FilterWithoutProject
    /\ mr.pc = "returned"
    /\ mr.filter_called
    /\ mr.limit = Some(1)
    /\ Len(mr.mrs) = 2
    /\ Len(reqs) = 1
    /\ mr.result = <<>>

(***************************************************************************)
(* Pages that are empty, not a list, or fail.                              *)
(***************************************************************************)
\* The page last requested by the bare paginate call.
LastPage == Len(reqs)

\* The items of the pages before the last requested one.
EarlierPages == PyPrefix(up.items.data, (LastPage - 1) * pg.per_page)

\* C30: when a page after the first is answered with an object or with an
\* empty list, paginate returns, without raising, exactly the items of the
\* earlier pages; when a page's request raises, paginate raises: the
\* exception leaves the call and nothing is returned.
C30_StopsOrPropagates ==
    (~pg.optional /\ pg.pc \in {"returned", "raised"} /\ LastPage >= 1) =>
        /\ up.items.failAt = LastPage <=> pg.pc = "raised"
        /\ (LastPage >= 2 /\ up.items.failAt # LastPage /\ up.items.objAt = LastPage) =>
              pg.pc = "returned" /\ pg.items = EarlierPages
        /\ (LastPage >= 2 /\ up.items.failAt # LastPage /\ up.items.objAt # LastPage
            /\ PageOf(up.items.data, LastPage, pg.per_page) = <<>>) =>
              pg.pc = "returned" /\ pg.items = EarlierPages

\* Page 2 was answered with an object after a full page 1: the call
\* returned the items of page 1.
C30_Witness ==
    /\ ~pg.optional
    /\ pg.pc = "returned"
    /\ pg.limit = None
    /\ up.items.objAt = 2
    /\ up.items.failAt = 0
    /\ LastPage = 2
    /\ Len(up.items.data) > pg.per_page
    /\ Len(pg.items) = pg.per_page
    /\ pg.items = EarlierPages

====
